---- MODULE Spec2Model ----
(***************************************************************************)
(* sqlite-helper: the connection registry (ConnectionManager), the         *)
(* per-database worker threads (db_worker_main), the task protocol of      *)
(* WorkerHandle, the read-only gate, the path sandboxer of the MCP front   *)
(* end and the two front-end dispatchers.                                  *)
(*                                                                         *)
(* A path is the sequence of its segments as written; an absolute path     *)
(* starts with the root segment "/".  A database is a single counter row  *)
(* and a catalog of table names: db[f] and catalog[f] in the file f.       *)
(*                                                                         *)
(* Spec is the core under concurrent clients, SpecLife the core with       *)
(* threads that end, SpecSchema the core under clients that list and       *)
(* create tables, SpecCancel the core under clients that stop awaiting,    *)
(* SpecTwoDb the core under clients of two databases, SpecEnsure the       *)
(* registry alone, SpecFront one session of either front end, SpecSession  *)
(* the run loop of either front end over its input and output streams;     *)
(* SpecPath, SpecSibling, SpecNorm, SpecQuery, SpecCursor, SpecLimit,      *)
(* SpecRef, SpecColumns and SpecExecute apply one function on its own.     *)
(***************************************************************************)
EXTENDS Integers, Sequences, FiniteSets, TLC

VARIABLES
    arg,          \* the arguments of a function applied on its own; of a run
                  \* loop, the lines read from its standard input
    ret,          \* its result, NoRet before the call; of a run loop, the
                  \* lines written to its standard output
    mode,         \* Args.mcp: "mcp" or "bridge"; "lib" for clients of the core
    allowed_dir,  \* Args.allowed_dir: the allow-list, a sequence of paths
    max_rows,     \* Args.max_rows: the process-wide row ceiling
    alive,        \* a clone of the ConnectionManager still exists
    dropped,      \* task ids whose oneshot sender was dropped without a send
    cancelled,    \* task ids whose oneshot receiver was dropped unread
    active_db,    \* BridgeHandler.active_db: <<>> (None) or <<path>>
    inner,        \* ConnectionManager.inner: registry key -> worker
    lockHolder,   \* the caller holding the registry Mutex, 0 when free
    pc,           \* per caller: position in its request
    loc,          \* per caller: the request's local variables
    nreq,         \* requests started so far
    resp,         \* per caller: the outcome of its last finished request
    wstate,       \* per worker: "none", "opening", "running", "draining", and
                  \* once the thread is gone "exited", "failed", "panicked"
    wpath,        \* per worker: db_path given to the thread
    wby,          \* per worker: the caller whose ensure_worker spawned it
    queue,        \* per worker: the mpsc channel, task ids in arrival order
    cur,          \* per worker: the tasks being executed on its connection
    execLog,      \* per worker: task ids in the order they were executed
    tasks,        \* every DbTask sent so far, indexed by task id
    replies,      \* per task id: what was sent on its oneshot channel
    db,           \* per database file: the counter row
    catalog       \* per database file: the table names in sqlite_master

vars == <<arg, ret, mode, allowed_dir, max_rows, alive, dropped, cancelled, catalog,
          active_db, inner, lockHolder, pc, loc, nreq, resp,
          wstate, wpath, wby, queue, cur, execLog, tasks, replies, db>>

----------------------------------------------------------------------------
(* Bounds *)

NumCallers == 2
MaxReqs == 2
MaxTasks == 3

Callers == 1 .. NumCallers
Workers == 1 .. (IF NumCallers > MaxReqs THEN NumCallers ELSE MaxReqs)

----------------------------------------------------------------------------
(* Paths: std::path as used by the registry and the sandboxer *)

Root == "/"
CurDir == "."
ParentDir == ".."

\* std::env::current_dir() of the process
Cwd == <<Root, "data">>

is_absolute(p) == Len(p) > 0 /\ p[1] = Root

\* Path::join: an absolute argument replaces the base
Join(base, p) == IF is_absolute(p) THEN p ELSE base \o p

\* Path::components: interior `.` segments are normalised away, a leading
\* one of a relative path is kept; `..` segments are kept
RECURSIVE Components(_)
Components(p) ==
    IF p = <<>> THEN <<>>
    ELSE LET n == Len(p)
             front == Components(SubSeq(p, 1, n - 1))
         IN IF p[n] = CurDir /\ n > 1 THEN front ELSE Append(front, p[n])

\* PathBuf::pop: truncate to the parent; nothing to do at the root or on an
\* empty path
Pop(out) ==
    IF out = <<>> \/ out = <<Root>> THEN out ELSE SubSeq(out, 1, Len(out) - 1)

RECURSIVE NormalizeFrom(_, _)
NormalizeFrom(comps, out) ==
    IF comps = <<>> THEN out
    ELSE LET c == Head(comps)
             rest == Tail(comps)
         IN IF c = CurDir THEN NormalizeFrom(rest, out)
            ELSE IF c = ParentDir THEN NormalizeFrom(rest, Pop(out))
            ELSE NormalizeFrom(rest, Append(out, c))

normalize_lexical(p) == NormalizeFrom(Components(p), <<>>)

\* the characters of a path segment
Spelling(seg) ==
    CASE seg = Root -> <<"/">>
      [] seg = CurDir -> <<".">>
      [] seg = ParentDir -> <<".", ".">>
      [] seg = "data" -> <<"d", "a", "t", "a">>
      [] seg = "data2" -> <<"d", "a", "t", "a", "2">>
      [] seg = "etc" -> <<"e", "t", "c">>
      [] seg = "a.db" -> <<"a", ".", "d", "b">>
      [] seg = "b.db" -> <<"b", ".", "d", "b">>
      [] seg = "x.db" -> <<"x", ".", "d", "b">>
      [] OTHER -> <<seg>>

\* Path::display: the segments separated by `/`, after the root if there is one
RECURSIVE Display(_)
Display(p) ==
    IF p = <<>> THEN <<>>
    ELSE IF Len(p) = 1 THEN Spelling(p[1])
    ELSE LET front == SubSeq(p, 1, Len(p) - 1)
             sep == IF front = <<Root>> THEN <<>> ELSE <<"/">>
         IN Display(front) \o sep \o Spelling(p[Len(p)])

\* starts_with comparing the paths as text (str::starts_with)
starts_with_AsText(p, base) ==
    LET a == Display(Components(p))
        b == Display(Components(base))
    IN Len(b) <= Len(a) /\ SubSeq(a, 1, Len(b)) = b

\* Path::starts_with: whole components of base are a prefix of those of p
starts_with(p, base) ==
    LET a == Components(p)
        b == Components(base)
    IN Len(b) <= Len(a) /\ SubSeq(a, 1, Len(b)) = b

\* validate_db_path comparing the path as written with the allowed roots
validate_db_path_Unnormalized(db_path, allowed_dirs) ==
    LET abs == Join(Cwd, db_path)
        abs_norm == normalize_lexical(abs)
    IN IF allowed_dirs = <<>> THEN [ok |-> TRUE, path |-> abs_norm]
       ELSE IF \E i \in 1 .. Len(allowed_dirs) :
                   starts_with(abs, normalize_lexical(allowed_dirs[i]))
            THEN [ok |-> TRUE, path |-> abs_norm]
            ELSE [ok |-> FALSE, path |-> abs_norm]

\* validate_db_path: [ok, path]; on failure path is the PathNotAllowed payload
validate_db_path(db_path, allowed_dirs) ==
    LET abs == Join(Cwd, db_path)
        abs_norm == normalize_lexical(abs)
    IN IF allowed_dirs = <<>> THEN [ok |-> TRUE, path |-> abs_norm]
       ELSE IF \E i \in 1 .. Len(allowed_dirs) :
                   starts_with(abs_norm, normalize_lexical(allowed_dirs[i]))
            THEN [ok |-> TRUE, path |-> abs_norm]
            ELSE [ok |-> FALSE, path |-> abs_norm]

canonicalize_lossy(path) == IF is_absolute(path) THEN path ELSE Join(Cwd, path)

\* HashMap<PathBuf, _>: PathBuf equality and hash are by components
RegistryKey(path) == Components(path)

\* Connection::open_with_flags: the file the operating system resolves the
\* path to (no symbolic links)
DbFile(path) == normalize_lexical(path)

----------------------------------------------------------------------------
(* Identifier validation (core/schema.rs) over strings as character sequences *)

AsciiAlpha ==
    {"a","b","c","d","e","f","g","h","i","j","k","l","m",
     "n","o","p","q","r","s","t","u","v","w","x","y","z",
     "A","B","C","D","E","F","G","H","I","J","K","L","M",
     "N","O","P","Q","R","S","T","U","V","W","X","Y","Z"}
AsciiDigit == {"0","1","2","3","4","5","6","7","8","9"}

is_safe_identifier(s) ==
    /\ s # <<>>
    /\ s[1] \in AsciiAlpha \cup {"_"}
    /\ \A i \in 2 .. Len(s) : s[i] \in AsciiAlpha \cup AsciiDigit \cup {"_"}

\* str::split('.'): the pieces between the separators, empty ones included
RECURSIVE SplitDot(_, _, _)
SplitDot(s, piece, acc) ==
    IF s = <<>> THEN Append(acc, piece)
    ELSE IF Head(s) = "." THEN SplitDot(Tail(s), <<>>, Append(acc, piece))
    ELSE SplitDot(Tail(s), Append(piece, Head(s)), acc)

\* a validator that takes any number of dotted identifiers
is_safe_table_ref_AnyDots(s) ==
    LET parts == SplitDot(s, <<>>, <<>>)
    IN \A i \in 1 .. Len(parts) : is_safe_identifier(parts[i])

is_safe_table_ref(s) ==
    LET parts == SplitDot(s, <<>>, <<>>)
    IN /\ is_safe_identifier(parts[1])
       /\ \/ Len(parts) = 1
          \/ Len(parts) = 2 /\ is_safe_identifier(parts[2])

----------------------------------------------------------------------------
(* The engine and the statements run against it.  "SELECT" reads the       *)
(* counter row, "INC" is UPDATE .. SET n = n + 1, "PRAGMA" is PRAGMA       *)
(* integrity_check (one row, written 0), "SERIES" is a SELECT that yields  *)
(* the rows 1 .. n for a counter of n, "CREATE" is CREATE TABLE IF NOT      *)
(* EXISTS sqlited(x), "INSERT" is INSERT INTO log DEFAULT VALUES into a    *)
(* table only this connection inserts into, "DELETE" is DELETE FROM log    *)
(* WHERE 0, "BAD" does not prepare.                                        *)

None == <<>>
Some(x) == <<x>>

NoArg == [fn |-> ""]
NoRet == [fn |-> ""]

UserTable == <<"t">>

\* the table "CREATE" makes, and the engine's own sqlite_stat1
CreatedTable == <<"s", "q", "l", "i", "t", "e", "d">>
InternalTable == <<"s", "q", "l", "i", "t", "e", "_", "s", "t", "a", "t", "1">>

\* sqlite_master of a database as it is first opened
InitCatalog == {UserTable, InternalTable}

\* the table names of the model in the order of ORDER BY name
ByName == <<InternalTable, CreatedTable, UserTable>>

\* AppResult; task is the id of the task a reply answers, 0 for a result
\* that is no reply
Ok(v) == [task |-> 0, ok |-> TRUE, err |-> "", val |-> v]
Err(e) == [task |-> 0, ok |-> FALSE, err |-> e, val |-> <<>>]

\* Option::unwrap_or
unwrap_or(o, dflt) == IF o = None THEN dflt ELSE o[1]

Min(a, b) == IF a < b THEN a ELSE b
Max(a, b) == IF a > b THEN a ELSE b

\* a limit that is floored and never capped
effective_limit_Uncapped(requested, rows) == Max(unwrap_or(requested, rows), 1)

\* effective_limit: the row limit a front end puts on a task
effective_limit(requested, rows) == Max(Min(unwrap_or(requested, rows), rows), 1)

\* run_query's effective_sql that drops the OFFSET of the wrapper
effective_sql_NoOffset(sql, limit, offset) ==
    [sql |-> sql, wrapped |-> offset # None, limit |-> limit, offset |-> 0]

\* run_query's effective_sql: the statement as given, or wrapped in
\* SELECT * FROM (sql) LIMIT limit OFFSET off when an offset is given
effective_sql(sql, limit, offset) ==
    [sql |-> sql, wrapped |-> offset # None, limit |-> limit,
     offset |-> unwrap_or(offset, 0)]

SelectStmts == {"SELECT", "SERIES"}

\* Connection::prepare: a sub-select must be a SELECT
Prepares(e) ==
    IF e.wrapped THEN e.sql \in SelectStmts
    ELSE e.sql \in SelectStmts \cup {"INC", "PRAGMA", "CREATE", "INSERT", "DELETE"}

\* sqlite3_stmt_readonly of the prepared statement
StmtReadonly(sql) == sql \in SelectStmts \cup {"PRAGMA"}

\* the rows the statement yields on a database whose counter is d
ResultSet(sql, d) ==
    CASE sql = "SELECT" -> <<d>>
      [] sql = "PRAGMA" -> <<0>>
      [] sql = "SERIES" -> [i \in 1 .. d |-> i]
      [] OTHER -> <<>>

\* the rows the prepared statement yields: LIMIT and OFFSET of the wrapper
\* applied by the engine
Yields(e, d) ==
    LET rs == ResultSet(e.sql, d)
    IN IF e.wrapped
       THEN SubSeq(rs, e.offset + 1, Min(Len(rs), e.offset + e.limit))
       ELSE rs

\* QueryResult without its column metadata
QueryResult(rows, truncated, next_offset) ==
    [rows |-> rows, truncated |-> truncated, next_offset |-> next_offset]

\* the database after the statement has been stepped to completion
Stepped(sql, d) == IF sql = "INC" THEN d + 1 ELSE d

\* sqlite_master after the statement has been stepped to completion
CatalogStepped(sql, cat) == IF sql = "CREATE" THEN cat \cup {CreatedTable} ELSE cat

\* is_sql_readonly: [ok, val] with val the classification
is_sql_readonly(sql) ==
    IF Prepares(effective_sql(sql, 0, None)) THEN Ok(StmtReadonly(sql))
    ELSE Err("SQL_ERROR")

\* the row loop of run_query that sets next_offset whenever an offset is given
FetchRows_AlwaysNext(produced, limit, offset) ==
    IF Len(produced) > limit
    THEN QueryResult(SubSeq(produced, 1, limit), TRUE, Some(unwrap_or(offset, 0) + limit))
    ELSE QueryResult(produced, FALSE,
                     IF offset = None THEN None ELSE Some(offset[1] + Len(produced)))

\* the row loop of run_query: rows are pushed until the statement is done,
\* or a row arrives when `limit` rows are already held
FetchRows(produced, limit, offset) ==
    IF Len(produced) > limit
    THEN QueryResult(SubSeq(produced, 1, limit), TRUE, Some(unwrap_or(offset, 0) + limit))
    ELSE QueryResult(produced, FALSE, None)

\* the rows r.next() hands to the row loop of run_query while `held` rows
\* are held: the loop asks again after each push and breaks on the row that
\* arrives when `limit` rows are held
RECURSIVE NextCalls(_, _, _)
NextCalls(produced, held, limit) ==
    IF produced = <<>> THEN 0
    ELSE IF held >= limit THEN 1
    ELSE 1 + NextCalls(Tail(produced), held + 1, limit)

\* a row loop that collects every row of the statement before it cuts
RowsFetched_Drains(produced, limit) == Len(produced)

\* the number of rows the row loop takes from the engine
RowsFetched(produced, limit) == NextCalls(produced, 0, limit)

\* the rows one call of run_query takes from the engine
QueryFetches(d, sql, limit, offset) ==
    LET e == effective_sql(sql, limit, offset)
    IN IF ~Prepares(e) THEN 0 ELSE RowsFetched(Yields(e, d), limit)

\* run_query: the reply and the database afterwards
run_query(d, sql, limit, offset) ==
    LET e == effective_sql(sql, limit, offset)
    IN IF ~Prepares(e) THEN [res |-> Err("SQL_ERROR"), db |-> d]
       ELSE [res |-> Ok(FetchRows(Yields(e, d), limit, offset)),
             db |-> Stepped(sql, d)]

\* INSERT, UPDATE and DELETE: the statements that set sqlite3_changes
DmlStmts == {"INC", "INSERT", "DELETE"}

\* the rows the statement inserts, updates or deletes
RowsChanged(sql) == IF sql \in {"INC", "INSERT"} THEN 1 ELSE 0

\* the connection's counters after the statement has been stepped:
\* sqlite3_last_insert_rowid moves with an INSERT only, sqlite3_changes
\* with an INSERT, UPDATE or DELETE only
ConnStepped(sql, conn) ==
    [last_insert_rowid |-> IF sql = "INSERT" THEN conn.last_insert_rowid + 1
                           ELSE conn.last_insert_rowid,
     changes |-> IF sql \in DmlStmts THEN RowsChanged(sql) ELSE conn.changes]

\* the ExecResult run_execute builds
ExecResult(changes, last_id) ==
    [changes |-> changes, last_insert_rowid |-> Some(last_id)]

\* run_execute that prepares the statement and never steps it
run_execute_Unstepped(d, sql, conn) ==
    IF ~Prepares(effective_sql(sql, 0, None)) THEN [res |-> Err("SQL_ERROR"), db |-> d]
    ELSE [res |-> Ok(ExecResult(conn.changes, conn.last_insert_rowid)), db |-> d]

\* run_execute on a connection with the counters conn: the reply and the
\* database afterwards; Connection::execute refuses a statement that
\* returns a row
run_execute(d, sql, conn) ==
    IF ~Prepares(effective_sql(sql, 0, None)) \/ StmtReadonly(sql)
    THEN [res |-> Err("SQL_ERROR"), db |-> d]
    ELSE LET after == ConnStepped(sql, conn)
         IN [res |-> Ok(ExecResult(after.changes, after.last_insert_rowid)),
             db |-> Stepped(sql, d)]

\* name LIKE 'sqlite_%': the prefix sqlite, any one character, anything
LikeSqlite(name) ==
    Len(name) >= 7 /\ SubSeq(name, 1, 6) = <<"s", "q", "l", "i", "t", "e">>

\* list_tables: the names of sqlite_master that the filter lets through,
\* in the order of ORDER BY name
list_tables(d, cat) ==
    [res |-> Ok(SelectSeq(ByName, LAMBDA n : n \in cat /\ ~LikeSqlite(n))), db |-> d]

\* the statements list_columns hands to Connection::prepare
ColumnsSql(table) ==
    IF ~is_safe_identifier(table) THEN <<>>
    ELSE <<[pragma |-> "table_info", table |-> table]>>

list_columns(d, table) ==
    IF ~is_safe_identifier(table) THEN [res |-> Err("INVALID_REQUEST"), db |-> d]
    ELSE [res |-> Ok(IF table = UserTable THEN <<"n">> ELSE <<>>), db |-> d]

\* a ReadQuery arm that runs the statement without classifying it
read_query_arm_Ungated(d, sql, limit, offset) == run_query(d, sql, limit, offset)

\* the ReadQuery arm of db_worker_main
read_query_arm(d, sql, limit, offset) ==
    LET ro == is_sql_readonly(sql)
    IN IF ~ro.ok THEN [res |-> Err(ro.err), db |-> d]
       ELSE IF ro.val THEN run_query(d, sql, limit, offset)
       ELSE [res |-> Err("NOT_READONLY"), db |-> d]

\* the INSERT, UPDATE and DELETE statements worker w has stepped on its
\* connection, as positions of its log: those of Execute tasks, and those of
\* Query tasks without an offset
DmlRun(w) ==
    {i \in 1 .. Len(execLog[w]) :
        LET t == tasks[execLog[w][i]]
        IN /\ t.sql \in DmlStmts
           /\ t.kind = "Execute" \/ (t.kind = "Query" /\ t.offset = None)}

\* the counters of the connection worker w owns
ConnOf(w) ==
    LET ran == DmlRun(w)
    IN [last_insert_rowid |->
            Cardinality({i \in ran : tasks[execLog[w][i]].sql = "INSERT"}),
        changes |->
            IF ran = {} THEN 0
            ELSE RowsChanged(tasks[execLog[w][CHOOSE i \in ran :
                                                 \A j \in ran : j <= i]].sql)]

\* the match of db_worker_main on one task
ExecTask(t, d, cat) ==
    CASE t.kind = "Query" -> run_query(d, t.sql, t.limit[1], t.offset)
      [] t.kind = "ReadQuery" -> read_query_arm(d, t.sql, t.limit[1], t.offset)
      [] t.kind = "Execute" -> run_execute(d, t.sql, ConnOf(t.worker))
      [] t.kind = "Tables" -> list_tables(d, cat)
      [] t.kind = "Columns" -> list_columns(d, t.table)

\* a drain loop that runs the task as the main loop does
respond_err_Runs(t, d) == ExecTask(t, d, InitCatalog)

\* sqlite_master after the task: a statement that was stepped took effect
ExecCatalog(t, res, cat) ==
    IF res.ok /\ t.kind \in {"Query", "Execute"} THEN CatalogStepped(t.sql, cat) ELSE cat

\* respond_err: the open error on the task's own channel
respond_err(t, d) == [res |-> Err("DB_OPEN_FAILED"), db |-> d]

----------------------------------------------------------------------------
(* Inputs *)

\* the paths requests name: the database in the working directory written
\* three ways, and one that leaves /data through `..`
PathInputs ==
    { <<Root, "data", "a.db">>,
      <<CurDir, "a.db">>,
      <<Root, "data", "x", ParentDir, "a.db">>,
      <<Root, "data", ParentDir, "etc", "b.db">> }

DbFiles == {DbFile(canonicalize_lossy(p)) : p \in PathInputs}

\* the file behind each db_path a worker thread is given
FileOf == [p \in {canonicalize_lossy(q) : q \in PathInputs} \cup DbFiles |-> DbFile(p)]

\* limit is None for the tasks that carry no row limit; requested is the
\* limit field of the request the task was built for, None when it had none
Op(kind, sql, limit, offset, table) ==
    [kind |-> kind, sql |-> sql, limit |-> limit, offset |-> offset, table |-> table,
     requested |-> None]

\* the DbTask each WorkerHandle method sends
query(sql, limit, offset) == Op("Query", sql, Some(limit), offset, <<>>)
read_query_Ungated(sql, limit, offset) == Op("Query", sql, Some(limit), offset, <<>>)
read_query(sql, limit, offset) == Op("ReadQuery", sql, Some(limit), offset, <<>>)
execute(sql) == Op("Execute", sql, None, None, <<>>)
tables == Op("Tables", "", None, None, <<>>)
columns(table) == Op("Columns", "", None, None, table)

\* the calls clients of the core make: a path and the call on its handle
DirectCalls ==
    { <<<<Root, "data", "a.db">>, execute("INC")>>,
      <<<<CurDir, "a.db">>, execute("INC")>>,
      <<<<Root, "data", "x", ParentDir, "a.db">>, execute("INC")>>,
      <<<<CurDir, "a.db">>, read_query("INC", 1, None)>>,
      <<<<Root, "data", "a.db">>, read_query("SELECT", 1, None)>> }

NoLoc ==
    [fe |-> "", tool |-> "", db_path |-> <<>>, h |-> 0, script |-> <<>>, task |-> 0]

----------------------------------------------------------------------------
(* Initial state: ConnectionManager::new, BridgeHandler::new, no thread yet *)

InitMachine(m, dirs, rows) ==
    /\ mode = m
    /\ allowed_dir = dirs
    /\ max_rows = rows
    /\ alive = TRUE
    /\ dropped = {}
    /\ cancelled = {}
    /\ active_db = None
    /\ inner = <<>>
    /\ lockHolder = 0
    /\ pc = [c \in Callers |-> "idle"]
    /\ loc = [c \in Callers |-> NoLoc]
    /\ nreq = 0
    /\ resp = [c \in Callers |-> Ok(<<>>)]
    /\ wstate = [w \in Workers |-> "none"]
    /\ wpath = [w \in Workers |-> <<>>]
    /\ wby = [w \in Workers |-> 0]
    /\ queue = [w \in Workers |-> <<>>]
    /\ cur = [w \in Workers |-> {}]
    /\ execLog = [w \in Workers |-> <<>>]
    /\ tasks = <<>>
    /\ replies = <<>>
    /\ db = [f \in DbFiles |-> 0]
    /\ catalog = [f \in DbFiles |-> InitCatalog]

InitWith(m, dirs, rows) ==
    /\ arg = NoArg
    /\ ret = NoRet
    /\ InitMachine(m, dirs, rows)

\* Args.max_rows when --max-rows is not given
DefaultMaxRows == 1000

Init == InitWith("lib", <<>>, DefaultMaxRows)

----------------------------------------------------------------------------
(* A request: the caller's side *)

\* the handler returns r to its caller
Finish(c, r) ==
    /\ pc' = [pc EXCEPT ![c] = "idle"]
    /\ loc' = [loc EXCEPT ![c] = NoLoc]
    /\ resp' = [resp EXCEPT ![c] = r]

\* the handler goes on to cm.ensure_worker(db_path)
Begin(c, fe, tool, db_path, script) ==
    /\ pc' = [pc EXCEPT ![c] = "ensure"]
    /\ loc' = [loc EXCEPT ![c] = [fe |-> fe, tool |-> tool, db_path |-> db_path,
                                  h |-> 0, script |-> script, task |-> 0]]
    /\ nreq' = nreq + 1
    /\ UNCHANGED resp

CanStart(c) == pc[c] = "idle" /\ nreq < MaxReqs

\* a client of the core: ensure_worker(path), then one call on the handle;
\* each client makes one request, and client c is the c-th to start
Call(c, calls) ==
    /\ mode = "lib"
    /\ alive
    /\ pc[c] = "idle"
    /\ nreq = c - 1
    /\ \E call \in calls :
          Begin(c, "direct", call[2].kind, call[1], <<call[2]>>)

DirectCall(c) ==
    /\ Call(c, DirectCalls)
    /\ UNCHANGED <<arg, ret, mode, allowed_dir, max_rows, alive, dropped, cancelled,
                   catalog, active_db,
                   inner, lockHolder, wstate, wpath,
                   wby, queue, cur, execLog, tasks, replies, db>>

\* ensure_worker without the lock held across the lookup and the insert
LockFree_Ignored == TRUE

\* a registry whose lock stays taken while any database is being opened
LockFree_HeldForOpen == lockHolder = 0 /\ \A w \in Workers : wstate[w] # "opening"

\* Mutex::lock on the registry
LockFree == lockHolder = 0

\* a registry that forgets a worker whose open has failed
RegistryHit_SkipsFailed(key) ==
    key \in DOMAIN inner /\ wstate[inner[key]] \notin {"draining", "failed"}

\* guard.get(&db_path) finds a handle
RegistryHit(key) == key \in DOMAIN inner

\* ensure_worker up to the lookup: canonicalize, lock, get; a hit returns the
\* clone and drops the guard, a miss goes on to spawn with the guard held
EnsureLookup(c) ==
    /\ pc[c] = "ensure"
    /\ LockFree
    /\ LET key == RegistryKey(canonicalize_lossy(loc[c].db_path))
       IN IF RegistryHit(key)
          THEN /\ loc' = [loc EXCEPT ![c].h = inner[key]]
               /\ pc' = [pc EXCEPT ![c] = "send"]
               /\ UNCHANGED lockHolder
          ELSE /\ lockHolder' = c
               /\ pc' = [pc EXCEPT ![c] = "spawn"]
               /\ UNCHANGED loc
    /\ UNCHANGED <<arg, ret, mode, allowed_dir, max_rows, alive, dropped, cancelled,
                   catalog, active_db,
                   inner, nreq, resp, wstate, wpath, wby,
                   queue, cur, execLog, tasks, replies, db>>

\* WorkerHandle::spawn and the insert, then the guard is dropped
EnsureSpawn(c) ==
    /\ pc[c] = "spawn"
    /\ LET path == canonicalize_lossy(loc[c].db_path)
           key == RegistryKey(path)
           w == CHOOSE x \in Workers :
                    wstate[x] = "none" /\ \A y \in Workers : wstate[y] = "none" => x <= y
       IN /\ wstate' = [wstate EXCEPT ![w] = "opening"]
          /\ wpath' = [wpath EXCEPT ![w] = path]
          /\ wby' = [wby EXCEPT ![w] = c]
          /\ inner' = [k \in DOMAIN inner \cup {key} |->
                          IF k = key THEN w ELSE inner[k]]
          /\ loc' = [loc EXCEPT ![c].h = w]
    /\ lockHolder' = IF lockHolder = c THEN 0 ELSE lockHolder
    /\ pc' = [pc EXCEPT ![c] = "send"]
    /\ UNCHANGED <<arg, ret, mode, allowed_dir, max_rows, alive, dropped, cancelled,
                   catalog, active_db,
                   nreq, resp, queue, cur, execLog, tasks,
                   replies, db>>


\* the Receiver of the worker's channel has been dropped: Sender::send fails
ReceiverGone(w) == wstate[w] \in {"exited", "failed", "panicked"}

\* what the handler does with a handle in hand, up to its next send:
\* `connect` is done; resources/read checks the table reference; every
\* other request sends the next DbTask of its script (WorkerHandle::query,
\* read_query, execute, tables, columns up to the await)
Submit(c) ==
    /\ pc[c] = "send"
    /\ IF loc[c].script = <<>>
       THEN /\ Finish(c, Ok(<<>>))
            /\ UNCHANGED <<tasks, queue, replies>>
       ELSE LET op == Head(loc[c].script)
                id == Len(tasks) + 1
                w == loc[c].h
            IN IF loc[c].tool = "resources/read" /\ ~is_safe_table_ref(op.table)
               THEN /\ Finish(c, Err("INVALID_REQUEST"))
                    /\ UNCHANGED <<tasks, queue, replies>>
               ELSE IF ReceiverGone(w)
               THEN /\ Finish(c, Err("INTERNAL"))
                    /\ UNCHANGED <<tasks, queue, replies>>
               ELSE /\ Len(tasks) < MaxTasks
                    /\ tasks' = Append(tasks, [kind |-> op.kind, sql |-> op.sql,
                                               limit |-> op.limit,
                                               requested |-> op.requested,
                                               offset |-> op.offset, table |-> op.table,
                                               caller |-> c, tool |-> loc[c].tool,
                                               worker |-> w])
                    /\ queue' = [queue EXCEPT ![w] = Append(@, id)]
                    /\ replies' = Append(replies, <<>>)
                    /\ loc' = [loc EXCEPT ![c].script = Tail(@), ![c].task = id]
                    /\ pc' = [pc EXCEPT ![c] = "await"]
                    /\ UNCHANGED resp
    /\ UNCHANGED <<arg, ret, mode, allowed_dir, max_rows, alive, dropped, cancelled,
                   catalog, active_db,
                   inner, lockHolder, nreq, wstate, wpath,
                   wby, cur, execLog, db>>

\* the Columns calls get_schema and analyze_db_health make for a Tables reply
ColumnsFor(names) == [i \in 1 .. Len(names) |-> columns(names[i])]

\* an await that never learns of a dropped sender
ReplyDropped_Unnoticed(t) == FALSE

\* rx.await returns RecvError: the oneshot sender was dropped without a send
ReplyDropped(t) == t \in dropped

\* rx.await returns the reply, or Internal for a dropped sender; `?` ends the
\* request on an error, otherwise the handler goes on to its next call or
\* returns the last result
Await(c) ==
    /\ pc[c] = "await"
    /\ replies[loc[c].task] # <<>> \/ ReplyDropped(loc[c].task)
    /\ LET r == IF replies[loc[c].task] # <<>> THEN replies[loc[c].task][1]
                ELSE [task |-> loc[c].task] @@ Err("INTERNAL")
           more == IF tasks[loc[c].task].kind = "Tables"
                      /\ loc[c].tool \in {"get_schema", "analyze_db_health"}
                   THEN ColumnsFor(r.val)
                   ELSE loc[c].script
       IN IF r.ok /\ more # <<>>
          THEN /\ loc' = [loc EXCEPT ![c].script = more, ![c].task = 0]
               /\ pc' = [pc EXCEPT ![c] = "send"]
               /\ UNCHANGED resp
          ELSE Finish(c, r)
    /\ UNCHANGED <<arg, ret, mode, allowed_dir, max_rows, alive, dropped, cancelled,
                   catalog, active_db,
                   inner, lockHolder, nreq, wstate, wpath,
                   wby, queue, cur, execLog, tasks, replies, db>>

\* a cancellation that takes the task out of the channel
QueueAfterCancel_Removes(q, t) == SelectSeq(q, LAMBDA x : x # t)

\* the worker's channel after a caller dropped the future of its call: the
\* DbTask was moved into the channel by send, the future owned only rx
QueueAfterCancel(q, t) == q

\* the caller stops awaiting: the future of WorkerHandle::query, execute,
\* .. is dropped at its await, and with it the oneshot Receiver and the
\* handle clone; nothing is returned to the caller
CancelAwait(c) ==
    /\ pc[c] = "await"
    /\ LET t == loc[c].task
       IN /\ cancelled' = cancelled \cup {t}
          /\ queue' = [queue EXCEPT ![tasks[t].worker] = QueueAfterCancel(@, t)]
    /\ pc' = [pc EXCEPT ![c] = "idle"]
    /\ loc' = [loc EXCEPT ![c] = NoLoc]
    /\ UNCHANGED <<arg, ret, mode, allowed_dir, max_rows, alive, dropped, catalog,
                   active_db, inner, lockHolder, nreq, resp, wstate, wpath, wby, cur,
                   execLog, tasks, replies, db>>

----------------------------------------------------------------------------
(* db_worker_main: the worker thread *)

\* Connection::open_with_flags(READ_WRITE | CREATE): /data exists and is
\* writable, so a file named directly in it opens or is created; a path
\* through any other directory fails when that directory is missing
OpenResults(path) ==
    LET comps == Components(path)
    IN IF Len(comps) = 3 /\ SubSeq(comps, 1, 2) = Cwd /\ comps[3] # ParentDir
       THEN {TRUE} ELSE BOOLEAN

\* open_conn returns: the thread enters its loop, or its drain loop
WorkerOpen(w) ==
    /\ wstate[w] = "opening"
    /\ \E opened \in OpenResults(wpath[w]) :
          wstate' = [wstate EXCEPT ![w] = IF opened THEN "running" ELSE "draining"]
    /\ UNCHANGED <<arg, ret, mode, allowed_dir, max_rows, alive, dropped, cancelled,
                   catalog, active_db,
                   inner, lockHolder, pc, loc, nreq, resp,
                   wpath, wby, queue, cur, execLog, tasks, replies, db>>

\* a worker that takes the next task while one is still running
AtRecv_Always(w) == TRUE

\* threads that take a task only while no thread is inside a loop body
AtRecv_NoneBusy(w) == \A v \in Workers : cur[v] = {}

\* the thread is blocked in rx.recv(), not inside a loop body
AtRecv(w) == cur[w] = {}

\* a channel that hands out the newest task first
NextTask_Newest(q) == q[Len(q)]

\* the task rx.recv() hands out
NextTask(q) == Head(q)

\* a thread that takes tasks from the channel while open_conn is under way
InLoop_BeforeOpen(w) == wstate[w] \in {"opening", "running", "draining"}

\* open_conn has returned and the thread is in one of its two recv loops
InLoop(w) == wstate[w] \in {"running", "draining"}

\* rx.recv() returns the oldest task of the channel
WorkerRecv(w) ==
    /\ InLoop(w)
    /\ AtRecv(w)
    /\ queue[w] # <<>>
    /\ LET t == NextTask(queue[w])
       IN /\ cur' = [cur EXCEPT ![w] = @ \cup {t}]
          /\ queue' = [queue EXCEPT ![w] = SelectSeq(@, LAMBDA x : x # t)]
    /\ UNCHANGED <<arg, ret, mode, allowed_dir, max_rows, alive, dropped, cancelled,
                   catalog, active_db,
                   inner, lockHolder, pc, loc, nreq, resp,
                   wstate, wpath, wby, execLog, tasks, replies, db>>

\* a loop body that answers on the channel of the task before
RespondTo_Previous(t) == IF t > 1 THEN t - 1 ELSE t

\* the oneshot channel the loop body sends its result on
RespondTo(t) == t

\* oneshot::Sender::send: the value is stored for the Receiver, or handed
\* back when the Receiver is gone; `let _ =` drops what is handed back
OneshotSend(chans, t, v) ==
    IF t \in cancelled THEN chans ELSE [chans EXCEPT ![t] = Append(@, v)]

\* a loop that ends when a task fails
AfterBody_StopsOnError(res) == IF res.ok THEN "running" ELSE "exited"

\* the loop body falls through to the next rx.recv() whatever the result
AfterBody(res) == "running"

\* the loop body: run the task on the connection, send the result
WorkerExec(w) ==
    /\ wstate[w] = "running"
    /\ \E t \in cur[w] :
          LET f == FileOf[wpath[w]]
              out == ExecTask(tasks[t], db[f], catalog[f])
          IN /\ db' = [db EXCEPT ![f] = out.db]
             /\ catalog' = [catalog EXCEPT ![f] = ExecCatalog(tasks[t], out.res, @)]
             /\ replies' = OneshotSend(replies, RespondTo(t), [task |-> t] @@ out.res)
             /\ cur' = [cur EXCEPT ![w] = @ \ {t}]
             /\ execLog' = [execLog EXCEPT ![w] = Append(@, t)]
             /\ wstate' = [wstate EXCEPT ![w] = AfterBody(out.res)]
    /\ UNCHANGED <<arg, ret, mode, allowed_dir, max_rows, alive, dropped, cancelled,
                   active_db, inner, lockHolder, pc, loc, nreq, resp, wpath, wby, queue,
                   tasks>>

\* the drain loop body after a failed open: respond_err
WorkerRespondErr(w) ==
    /\ wstate[w] = "draining"
    /\ \E t \in cur[w] :
          LET out == respond_err(tasks[t], 0)
          IN /\ replies' = OneshotSend(replies, RespondTo(t), [task |-> t] @@ out.res)
             /\ cur' = [cur EXCEPT ![w] = @ \ {t}]
             /\ execLog' = [execLog EXCEPT ![w] = Append(@, t)]
    /\ UNCHANGED <<arg, ret, mode, allowed_dir, max_rows, alive, dropped, cancelled,
                   catalog, active_db,
                   inner, lockHolder, pc, loc, nreq, resp,
                   wstate, wpath, wby, queue, tasks, db>>

\* every Sender of the worker's channel is gone: the registry and the
\* clones callers hold
ChannelClosed(w) == ~alive /\ \A c \in Callers : loc[c].h # w

\* rx.recv() returns Err on the closed, empty channel: the loop ends and
\* db_worker_main returns, from the drain loop or from the main loop
WorkerExit(w) ==
    /\ wstate[w] \in {"running", "draining"}
    /\ AtRecv(w)
    /\ queue[w] = <<>>
    /\ ChannelClosed(w)
    /\ wstate' = [wstate EXCEPT ![w] = IF @ = "draining" THEN "failed" ELSE "exited"]
    /\ UNCHANGED <<arg, ret, mode, allowed_dir, max_rows, alive, dropped, cancelled,
                   catalog, active_db, inner,
                   lockHolder, pc, loc, nreq, resp, wpath, wby, queue, cur, execLog, tasks,
                   replies, db>>

\* the thread panics inside the loop body, before or after the statement
\* took effect: unwinding drops the task in hand and the Receiver, and with
\* it every task still in the channel
WorkerPanic(w) ==
    /\ wstate[w] = "running"
    /\ \E t \in cur[w], ran \in BOOLEAN :
          LET f == FileOf[wpath[w]]
              out == ExecTask(tasks[t], db[f], catalog[f])
          IN /\ db' = [db EXCEPT ![f] = IF ran THEN out.db ELSE @]
             /\ catalog' = [catalog EXCEPT ![f] =
                               IF ran THEN ExecCatalog(tasks[t], out.res, @) ELSE @]
    /\ wstate' = [wstate EXCEPT ![w] = "panicked"]
    /\ dropped' = dropped \cup cur[w] \cup {queue[w][i] : i \in 1 .. Len(queue[w])}
    /\ cur' = [cur EXCEPT ![w] = {}]
    /\ queue' = [queue EXCEPT ![w] = <<>>]
    /\ UNCHANGED <<arg, ret, mode, allowed_dir, max_rows, alive, cancelled, active_db,
                   inner, lockHolder, pc, loc, nreq, resp, wpath, wby, execLog, tasks,
                   replies>>

\* the last clone of the ConnectionManager is dropped; no ensure_worker is
\* borrowing it
DropManager ==
    /\ alive
    /\ \A c \in Callers : pc[c] \notin {"ensure", "spawn"}
    /\ alive' = FALSE
    /\ UNCHANGED <<arg, ret, mode, allowed_dir, max_rows, dropped, cancelled, catalog,
                   active_db, inner,
                   lockHolder, pc, loc, nreq, resp, wstate, wpath, wby, queue, cur,
                   execLog, tasks, replies, db>>

----------------------------------------------------------------------------
(* The core under concurrent clients *)

Next ==
    \/ \E c \in Callers : DirectCall(c)
    \/ \E c \in Callers : EnsureLookup(c)
    \/ \E c \in Callers : EnsureSpawn(c)
    \/ \E c \in Callers : Submit(c)
    \/ \E c \in Callers : Await(c)
    \/ \E w \in Workers : WorkerOpen(w)
    \/ \E w \in Workers : WorkerRecv(w)
    \/ \E w \in Workers : WorkerExec(w)
    \/ \E w \in Workers : WorkerRespondErr(w)

Spec == Init /\ [][Next]_vars

----------------------------------------------------------------------------
(* The core with threads that end: the registry is dropped, a worker       *)
(* returns from its loop or panics in it.  The threads are scheduled       *)
(* fairly, and a caller whose await can return does return.                *)

\* one database, reached through a directory that may be missing
LifeCalls ==
    { <<<<Root, "data", "x", ParentDir, "a.db">>, execute("INC")>>,
      <<<<Root, "data", "x", ParentDir, "a.db">>, execute("BAD")>>,
      <<<<Root, "data", "x", ParentDir, "a.db">>, columns(<<"t", ";">>)>> }

LifeCall(c) ==
    /\ Call(c, LifeCalls)
    /\ UNCHANGED <<arg, ret, mode, allowed_dir, max_rows, alive, dropped, cancelled,
                   catalog, active_db, inner,
                   lockHolder, wstate, wpath, wby, queue, cur, execLog, tasks, replies, db>>

NextLife ==
    \/ \E c \in Callers : LifeCall(c)
    \/ \E c \in Callers : EnsureLookup(c)
    \/ \E c \in Callers : EnsureSpawn(c)
    \/ \E c \in Callers : Submit(c)
    \/ \E c \in Callers : Await(c)
    \/ \E w \in Workers : WorkerOpen(w)
    \/ \E w \in Workers : WorkerRecv(w)
    \/ \E w \in Workers : WorkerExec(w)
    \/ \E w \in Workers : WorkerRespondErr(w)
    \/ \E w \in Workers : WorkerExit(w)
    \/ \E w \in Workers : WorkerPanic(w)
    \/ DropManager

\* a step of the thread of worker w that does not end it
WorkerStep(w) ==
    WorkerOpen(w) \/ WorkerRecv(w) \/ WorkerExec(w) \/ WorkerRespondErr(w)

SpecLife ==
    /\ Init
    /\ [][NextLife]_vars
    /\ \A c \in Callers : WF_vars(Await(c))
    /\ \A w \in Workers : WF_vars(WorkerStep(w))

----------------------------------------------------------------------------
(* The registry under clients that only call ensure_worker.  The callers'  *)
(* threads are scheduled fairly; nothing is assumed of how long, or        *)
(* whether, an open returns.                                               *)

\* one database named in two ways, and another one
EnsurePaths ==
    { <<Root, "data", "a.db">>,
      <<CurDir, "a.db">>,
      <<Root, "data", ParentDir, "etc", "b.db">> }

EnsureCall(c) ==
    /\ mode = "lib"
    /\ alive
    /\ pc[c] = "idle"
    /\ nreq = c - 1
    /\ \E path \in EnsurePaths : Begin(c, "direct", "ensure_worker", path, <<>>)
    /\ UNCHANGED <<arg, ret, mode, allowed_dir, max_rows, alive, dropped, cancelled,
                   catalog, active_db, inner, lockHolder, wstate, wpath, wby, queue, cur,
                   execLog, tasks, replies, db>>

\* a step of ensure_worker in the thread of caller c
EnsureStep(c) == EnsureLookup(c) \/ EnsureSpawn(c)

NextEnsure ==
    \/ \E c \in Callers : EnsureCall(c)
    \/ \E c \in Callers : EnsureLookup(c)
    \/ \E c \in Callers : EnsureSpawn(c)
    \/ \E c \in Callers : Submit(c)
    \/ \E w \in Workers : WorkerOpen(w)

SpecEnsure ==
    /\ Init
    /\ [][NextEnsure]_vars
    /\ \A c \in Callers : WF_vars(EnsureStep(c))

----------------------------------------------------------------------------
(* The core under clients of two databases, one of which may fail to open *)

TwoDbCalls ==
    { <<<<Root, "data", "a.db">>, execute("INC")>>,
      <<<<Root, "data", ParentDir, "etc", "b.db">>, execute("INC")>>,
      <<<<Root, "data", ParentDir, "etc", "b.db">>, read_query("SELECT", 1, None)>> }

TwoDbCall(c) ==
    /\ Call(c, TwoDbCalls)
    /\ UNCHANGED <<arg, ret, mode, allowed_dir, max_rows, alive, dropped, cancelled,
                   catalog, active_db, inner, lockHolder, wstate, wpath, wby, queue, cur,
                   execLog, tasks, replies, db>>

NextTwoDb ==
    \/ \E c \in Callers : TwoDbCall(c)
    \/ \E c \in Callers : EnsureLookup(c)
    \/ \E c \in Callers : EnsureSpawn(c)
    \/ \E c \in Callers : Submit(c)
    \/ \E c \in Callers : Await(c)
    \/ \E w \in Workers : WorkerOpen(w)
    \/ \E w \in Workers : WorkerRecv(w)
    \/ \E w \in Workers : WorkerExec(w)
    \/ \E w \in Workers : WorkerRespondErr(w)

SpecTwoDb == Init /\ [][NextTwoDb]_vars

----------------------------------------------------------------------------
(* The core under clients that may stop awaiting their reply *)

CancelCalls ==
    { <<<<Root, "data", "a.db">>, execute("INC")>>,
      <<<<CurDir, "a.db">>, execute("BAD")>>,
      <<<<Root, "data", "a.db">>, read_query("SELECT", 1, None)>> }

CancelCall(c) ==
    /\ Call(c, CancelCalls)
    /\ UNCHANGED <<arg, ret, mode, allowed_dir, max_rows, alive, dropped, cancelled,
                   catalog, active_db, inner, lockHolder, wstate, wpath, wby, queue, cur,
                   execLog, tasks, replies, db>>

NextCancel ==
    \/ \E c \in Callers : CancelCall(c)
    \/ \E c \in Callers : EnsureLookup(c)
    \/ \E c \in Callers : EnsureSpawn(c)
    \/ \E c \in Callers : Submit(c)
    \/ \E c \in Callers : Await(c)
    \/ \E c \in Callers : CancelAwait(c)
    \/ \E w \in Workers : WorkerOpen(w)
    \/ \E w \in Workers : WorkerRecv(w)
    \/ \E w \in Workers : WorkerExec(w)

SpecCancel == Init /\ [][NextCancel]_vars

----------------------------------------------------------------------------
(* The core under clients that list the tables of one database and create  *)
(* a table in it                                                           *)

SchemaCalls ==
    { <<<<Root, "data", "a.db">>, tables>>,
      <<<<Root, "data", "a.db">>, execute("CREATE")>>,
      <<<<Root, "data", "a.db">>, read_query("CREATE", 1, None)>> }

SchemaCall(c) ==
    /\ Call(c, SchemaCalls)
    /\ UNCHANGED <<arg, ret, mode, allowed_dir, max_rows, alive, dropped, cancelled,
                   catalog, active_db,
                   inner, lockHolder, wstate, wpath, wby, queue, cur, execLog, tasks,
                   replies, db>>

NextSchema ==
    \/ \E c \in Callers : SchemaCall(c)
    \/ \E c \in Callers : EnsureLookup(c)
    \/ \E c \in Callers : EnsureSpawn(c)
    \/ \E c \in Callers : Submit(c)
    \/ \E c \in Callers : Await(c)
    \/ \E w \in Workers : WorkerOpen(w)
    \/ \E w \in Workers : WorkerRecv(w)
    \/ \E w \in Workers : WorkerExec(w)

SpecSchema == Init /\ [][NextSchema]_vars

----------------------------------------------------------------------------
(* The front ends: one request at a time, on the session's only task *)

FrontCaller == 1

FrontPaths == {<<Root, "data", "a.db">>, <<Root, "data", ParentDir, "etc", "b.db">>}
FrontSql == {"SELECT", "INC"}
\* sql, limit and offset of a request
FrontQueries ==
    { <<"SELECT", None, None>>, <<"SELECT", None, Some(0)>>, <<"INC", None, None>>,
      <<"SELECT", Some(0), None>>, <<"SELECT", Some(5), None>> }
FrontTables == {UserTable, <<"t", ";">>}

\* the handler returns r before any call on the registry
Reject(c, r) ==
    /\ Finish(c, r)
    /\ nreq' = nreq + 1

\* the handler validates the path and goes on, or returns PathNotAllowed
Validated(c, tool, path, script) ==
    LET v == validate_db_path(path, allowed_dir)
    IN IF v.ok THEN Begin(c, "mcp", tool, v.path, script)
       ELSE Reject(c, Err("PATH_NOT_ALLOWED"))

tool_read_query(c) ==
    /\ mode = "mcp"
    /\ CanStart(c)
    /\ \E path \in FrontPaths, q \in FrontQueries :
          Validated(c, "read_query", path,
                    <<[read_query(q[1], effective_limit(q[2], max_rows), q[3])
                          EXCEPT !.requested = q[2]]>>)
    /\ UNCHANGED <<arg, ret, mode, allowed_dir, max_rows, alive, dropped, cancelled,
                   catalog, active_db,
                   inner, lockHolder, wstate,
                   wpath, wby, queue, cur, execLog, tasks, replies, db>>

tool_write_query(c) ==
    /\ mode = "mcp"
    /\ CanStart(c)
    /\ \E path \in FrontPaths, sql \in FrontSql :
          Validated(c, "write_query", path, <<execute(sql)>>)
    /\ UNCHANGED <<arg, ret, mode, allowed_dir, max_rows, alive, dropped, cancelled,
                   catalog, active_db,
                   inner, lockHolder, wstate,
                   wpath, wby, queue, cur, execLog, tasks, replies, db>>

\* tables, then columns for each table (Await continues the script)
tool_get_schema(c) ==
    /\ mode = "mcp"
    /\ CanStart(c)
    /\ \E path \in FrontPaths : Validated(c, "get_schema", path, <<tables>>)
    /\ UNCHANGED <<arg, ret, mode, allowed_dir, max_rows, alive, dropped, cancelled,
                   catalog, active_db,
                   inner, lockHolder, wstate,
                   wpath, wby, queue, cur, execLog, tasks, replies, db>>

tool_analyze_db_health(c) ==
    /\ mode = "mcp"
    /\ CanStart(c)
    /\ \E path \in FrontPaths :
          Validated(c, "analyze_db_health", path, <<read_query("PRAGMA", 50, None), tables>>)
    /\ UNCHANGED <<arg, ret, mode, allowed_dir, max_rows, alive, dropped, cancelled,
                   catalog, active_db,
                   inner, lockHolder, wstate,
                   wpath, wby, queue, cur, execLog, tasks, replies, db>>

\* the statement read_sqlite_table_resource builds for a table reference
PreviewSql(table) == IF table = UserTable THEN "SELECT" ELSE "BAD"

\* resources/read: the uri names a path and a table (parse_sqlite_table_uri
\* refuses an empty table); Submit checks the table reference
read_sqlite_table_resource(c) ==
    /\ mode = "mcp"
    /\ CanStart(c)
    /\ \E path \in FrontPaths, table \in FrontTables \cup {<<>>} :
          IF table = <<>> THEN Reject(c, Err("INVALID_REQUEST"))
          ELSE Validated(c, "resources/read", path,
                         <<[read_query(PreviewSql(table), 50, None) EXCEPT !.table = table]>>)
    /\ UNCHANGED <<arg, ret, mode, allowed_dir, max_rows, alive, dropped, cancelled,
                   catalog, active_db,
                   inner, lockHolder, wstate,
                   wpath, wby, queue, cur, execLog, tasks, replies, db>>

\* a resolution that prefers the active database to the request's own path
resolve_db_path_ActiveFirst(payload_path) ==
    IF active_db # None THEN [ok |-> TRUE, path |-> active_db[1]]
    ELSE IF payload_path # None THEN [ok |-> TRUE, path |-> payload_path[1]]
    ELSE [ok |-> FALSE, path |-> <<>>]

\* BridgeHandler::resolve_db_path
resolve_db_path(payload_path) ==
    IF payload_path # None THEN [ok |-> TRUE, path |-> payload_path[1]]
    ELSE IF active_db # None THEN [ok |-> TRUE, path |-> active_db[1]]
    ELSE [ok |-> FALSE, path |-> <<>>]

\* the handler resolves the path and goes on, or returns InvalidRequest
Resolved(c, cmd, payload_path, script) ==
    LET r == resolve_db_path(payload_path)
    IN IF r.ok THEN Begin(c, "bridge", cmd, r.path, script)
       ELSE Reject(c, Err("INVALID_REQUEST"))

PayloadPaths == {None} \cup {Some(p) : p \in FrontPaths}

\* BridgeHandler::handle on a request with v # 1 or an unknown cmd
handle_invalid(c) ==
    /\ mode = "bridge"
    /\ CanStart(c)
    /\ Reject(c, Err("INVALID_REQUEST"))
    /\ UNCHANGED <<arg, ret, mode, allowed_dir, max_rows, alive, dropped, cancelled,
                   catalog, active_db,
                   inner, lockHolder, wstate,
                   wpath, wby, queue, cur, execLog, tasks, replies, db>>

handle_connect(c) ==
    /\ mode = "bridge"
    /\ CanStart(c)
    /\ \E path \in FrontPaths :
          /\ active_db' = Some(path)
          /\ Begin(c, "bridge", "connect", path, <<>>)
    /\ UNCHANGED <<arg, ret, mode, allowed_dir, max_rows, alive, dropped, cancelled,
                   catalog, inner,
                   lockHolder, wstate,
                   wpath, wby, queue, cur, execLog, tasks, replies, db>>

handle_query(c) ==
    /\ mode = "bridge"
    /\ CanStart(c)
    /\ \E pp \in PayloadPaths, q \in FrontQueries :
          Resolved(c, "query", pp,
                   <<[query(q[1], effective_limit(q[2], max_rows), q[3])
                         EXCEPT !.requested = q[2]]>>)
    /\ UNCHANGED <<arg, ret, mode, allowed_dir, max_rows, alive, dropped, cancelled,
                   catalog, active_db,
                   inner, lockHolder, wstate,
                   wpath, wby, queue, cur, execLog, tasks, replies, db>>

handle_execute(c) ==
    /\ mode = "bridge"
    /\ CanStart(c)
    /\ \E pp \in PayloadPaths, sql \in FrontSql :
          Resolved(c, "execute", pp, <<execute(sql)>>)
    /\ UNCHANGED <<arg, ret, mode, allowed_dir, max_rows, alive, dropped, cancelled,
                   catalog, active_db,
                   inner, lockHolder, wstate,
                   wpath, wby, queue, cur, execLog, tasks, replies, db>>

handle_tables(c) ==
    /\ mode = "bridge"
    /\ CanStart(c)
    /\ \E pp \in PayloadPaths : Resolved(c, "tables", pp, <<tables>>)
    /\ UNCHANGED <<arg, ret, mode, allowed_dir, max_rows, alive, dropped, cancelled,
                   catalog, active_db,
                   inner, lockHolder, wstate,
                   wpath, wby, queue, cur, execLog, tasks, replies, db>>

handle_columns(c) ==
    /\ mode = "bridge"
    /\ CanStart(c)
    /\ \E pp \in PayloadPaths, table \in FrontTables :
          Resolved(c, "columns", pp, <<columns(table)>>)
    /\ UNCHANGED <<arg, ret, mode, allowed_dir, max_rows, alive, dropped, cancelled,
                   catalog, active_db,
                   inner, lockHolder, wstate,
                   wpath, wby, queue, cur, execLog, tasks, replies, db>>

AllowListInputs == {<<>>, <<<<Root, "data">>>>}
MaxRowsInputs == {2, DefaultMaxRows}

InitFront ==
    \E m \in {"mcp", "bridge"}, dirs \in AllowListInputs, rows \in MaxRowsInputs :
        InitWith(m, dirs, rows)

NextFront ==
    \/ tool_read_query(FrontCaller)
    \/ tool_write_query(FrontCaller)
    \/ tool_get_schema(FrontCaller)
    \/ tool_analyze_db_health(FrontCaller)
    \/ read_sqlite_table_resource(FrontCaller)
    \/ handle_invalid(FrontCaller)
    \/ handle_connect(FrontCaller)
    \/ handle_query(FrontCaller)
    \/ handle_execute(FrontCaller)
    \/ handle_tables(FrontCaller)
    \/ handle_columns(FrontCaller)
    \/ EnsureLookup(FrontCaller)
    \/ EnsureSpawn(FrontCaller)
    \/ Submit(FrontCaller)
    \/ Await(FrontCaller)
    \/ \E w \in Workers : WorkerOpen(w)
    \/ \E w \in Workers : WorkerRecv(w)
    \/ \E w \in Workers : WorkerExec(w)
    \/ \E w \in Workers : WorkerRespondErr(w)

SpecFront == InitFront /\ [][NextFront]_vars

----------------------------------------------------------------------------
(* A protocol session: the run loop of a front end reading its standard    *)
(* input line by line. arg.read is what it has read so far, arg.req the    *)
(* request whose response is still to be written, ret.out what it has      *)
(* written to its standard output.                                         *)

MaxLines == 3

\* a line of input; id and cmd are None when the JSON has no such member
\* (or, for id, null); cmd is the bridge's cmd or the JSON-RPC method
InputLine(kind, v, id, cmd, tool, path, sql, table) ==
    [kind |-> kind, v |-> v, id |-> id, cmd |-> cmd, tool |-> tool, path |-> path,
     sql |-> sql, table |-> table]

BlankLine == InputLine("blank", 0, None, None, "", None, "", <<>>)
\* a line that does not deserialize (as a BridgeRequest, as JSON)
GarbageLine == InputLine("garbage", 0, None, None, "", None, "", <<>>)

BridgeReq(v, id, cmd, path, sql, table) ==
    InputLine("request", v, Some(id), Some(cmd), "", path, sql, table)

McpMsg(id, method, tool, path, sql) ==
    InputLine("message", 0, id, method, tool, path, sql, <<>>)

DbA == <<Root, "data", "a.db">>
DbB == <<Root, "data", ParentDir, "etc", "b.db">>

BridgeLines ==
    { BlankLine, GarbageLine,
      BridgeReq(1, "p", "connect", Some(DbA), "", <<>>),
      BridgeReq(1, "p", "connect", Some(DbB), "", <<>>),
      BridgeReq(1, "p", "connect", None, "", <<>>),
      BridgeReq(1, "p", "query", None, "SELECT", <<>>),
      BridgeReq(1, "p", "execute", None, "INC", <<>>),
      BridgeReq(1, "p", "tables", None, "", <<>>),
      BridgeReq(1, "q", "tables", None, "", <<>>),
      BridgeReq(1, "p", "columns", None, "", UserTable),
      BridgeReq(1, "q", "tables", Some(DbA), "", <<>>),
      BridgeReq(1, "q", "execute", Some(DbB), "INC", <<>>),
      BridgeReq(2, "p", "tables", None, "", <<>>),
      BridgeReq(1, "q", "drop", None, "", <<>>) }

McpLines ==
    { BlankLine, GarbageLine,
      McpMsg(None, Some("notifications/initialized"), "", None, ""),
      McpMsg(None, Some("tools/call"), "write_query", Some(DbA), "INC"),
      McpMsg(Some("p"), None, "", None, ""),
      McpMsg(Some("p"), Some("initialize"), "", None, ""),
      McpMsg(Some("q"), Some("initialize"), "", None, ""),
      McpMsg(Some("p"), Some("tools/call"), "read_query", Some(DbA), "SELECT"),
      McpMsg(Some("q"), Some("tools/call"), "write_query", Some(DbA), "INC"),
      McpMsg(Some("q"), Some("tools/call"), "vacuum", Some(DbA), ""),
      McpMsg(Some("q"), Some("shutdown"), "", None, "") }

\* BridgeResponse / the JSON-RPC response built from a handler's result
Response(id, r) == [id |-> id, ok |-> r.ok, err |-> r.err, val |-> r.val]

\* a connect that answers only once a first task has come back
ConnectScript_Probes == <<tables>>

\* what handle_connect sends to the worker before it answers: nothing
ConnectScript == <<>>

\* BridgeHandler::handle on a deserialized request, up to its first call on
\* the registry or its return
handle(c, req) ==
    LET cmd == req.cmd[1]
        lim == effective_limit(None, max_rows)
    IN IF req.v # 1
       THEN Reject(c, Err("INVALID_REQUEST")) /\ UNCHANGED active_db
       ELSE IF cmd = "connect"
       THEN IF req.path = None
            THEN Reject(c, Err("INVALID_REQUEST")) /\ UNCHANGED active_db
            ELSE /\ active_db' = Some(req.path[1])
                 /\ Begin(c, "bridge", "connect", req.path[1], ConnectScript)
       ELSE IF cmd = "query"
       THEN Resolved(c, "query", req.path, <<query(req.sql, lim, None)>>)
            /\ UNCHANGED active_db
       ELSE IF cmd = "execute"
       THEN Resolved(c, "execute", req.path, <<execute(req.sql)>>)
            /\ UNCHANGED active_db
       ELSE IF cmd = "tables"
       THEN Resolved(c, "tables", req.path, <<tables>>) /\ UNCHANGED active_db
       ELSE IF cmd = "columns"
       THEN Resolved(c, "columns", req.path, <<columns(req.table)>>)
            /\ UNCHANGED active_db
       ELSE Reject(c, Err("INVALID_REQUEST")) /\ UNCHANGED active_db

\* a run loop that takes the next line while a response is still owed
MayRead_Pipelined(c) == pc[c] \in {"idle", "await"}

\* the loop is back at its read: the handler has returned and its response
\* has been written
MayRead(c) == pc[c] = "idle" /\ arg.req = None

\* vscode_bridge::run, from io.read_line to the call of handler.handle: an
\* empty line is skipped, a line that does not deserialize is answered with
\* a protocol error under the empty id
BridgeRead(c) ==
    /\ mode = "bridge"
    /\ arg.fn = "run"
    /\ MayRead(c)
    /\ Len(arg.read) < MaxLines
    /\ \E line \in BridgeLines :
          /\ arg' = [arg EXCEPT !.read = Append(@, line),
                                !.req = IF line.kind = "request" THEN Some(line)
                                        ELSE arg.req]
          /\ IF line.kind = "blank"
             THEN UNCHANGED <<ret, pc, loc, nreq, resp, active_db>>
             ELSE IF line.kind = "garbage"
             THEN /\ ret' = [ret EXCEPT !.out =
                                Append(@, Response(Some(""), Err("INVALID_REQUEST")))]
                  /\ UNCHANGED <<pc, loc, nreq, resp, active_db>>
             ELSE handle(c, line) /\ UNCHANGED ret
    /\ UNCHANGED <<mode, allowed_dir, max_rows, alive, dropped, cancelled, catalog,
                   inner, lockHolder, wstate, wpath, wby, queue, cur, execLog,
                   tasks, replies, db>>

\* the response carries req.id
ResponseId(req) == req.id

\* io.write_json_line(&resp) / write_line(&mut stdout, &resp) once the
\* handler has returned
WriteResponse(c) ==
    /\ arg.fn = "run"
    /\ pc[c] = "idle"
    /\ arg.req # None
    /\ ret' = [ret EXCEPT !.out = Append(@, Response(ResponseId(arg.req[1]), resp[c]))]
    /\ arg' = [arg EXCEPT !.req = None]
    /\ UNCHANGED <<mode, allowed_dir, max_rows, alive, dropped, cancelled, catalog,
                   active_db, inner, lockHolder, pc, loc, nreq, resp, wstate, wpath,
                   wby, queue, cur, execLog, tasks, replies, db>>

\* msg.get("id").cloned().unwrap_or(Value::Null).is_null()
IsNotification(msg) == msg.id = None

\* the match on the method: the handlers that touch no database return at
\* once, tools/call goes through the tool's path validation
dispatch(c, msg) ==
    LET method == msg.cmd[1]
        lim == effective_limit(None, max_rows)
    IN IF method \in {"initialize", "tools/list", "resources/list", "prompts/list"}
       THEN Reject(c, Ok(<<>>))
       ELSE IF method = "tools/call"
       THEN IF msg.tool = "read_query"
            THEN Validated(c, "read_query", msg.path[1], <<read_query(msg.sql, lim, None)>>)
            ELSE IF msg.tool = "write_query"
            THEN Validated(c, "write_query", msg.path[1], <<execute(msg.sql)>>)
            ELSE Reject(c, Err("INVALID_REQUEST"))
       ELSE Reject(c, Err("METHOD_NOT_FOUND"))

\* mcp::server::run, from stdin.read_line to the handler's first call on the
\* registry: an empty line and a notification are skipped, a line that is
\* not JSON and a message without a method are answered at once
McpRead(c) ==
    /\ mode = "mcp"
    /\ arg.fn = "run"
    /\ MayRead(c)
    /\ Len(arg.read) < MaxLines
    /\ \E line \in McpLines :
          LET answered == line.kind = "message" /\ ~IsNotification(line)
                          /\ line.cmd # None
          IN /\ arg' = [arg EXCEPT !.read = Append(@, line),
                                   !.req = IF answered THEN Some(line) ELSE arg.req]
             /\ IF line.kind = "blank" \/ (line.kind = "message" /\ IsNotification(line))
                THEN UNCHANGED <<ret, pc, loc, nreq, resp>>
                ELSE IF line.kind = "garbage"
                THEN /\ ret' = [ret EXCEPT !.out =
                                   Append(@, Response(None, Err("PARSE_ERROR")))]
                     /\ UNCHANGED <<pc, loc, nreq, resp>>
                ELSE IF line.cmd = None
                THEN /\ ret' = [ret EXCEPT !.out =
                                   Append(@, Response(line.id, Err("INVALID_REQUEST")))]
                     /\ UNCHANGED <<pc, loc, nreq, resp>>
                ELSE dispatch(c, line) /\ UNCHANGED ret
    /\ UNCHANGED <<mode, allowed_dir, max_rows, alive, dropped, cancelled, catalog,
                   active_db, inner, lockHolder, wstate, wpath, wby, queue, cur,
                   execLog, tasks, replies, db>>

InitSession ==
    /\ \E m \in {"mcp", "bridge"} : InitMachine(m, <<>>, DefaultMaxRows)
    /\ arg = [fn |-> "run", read |-> <<>>, req |-> None]
    /\ ret = [fn |-> "run", out |-> <<>>]

NextSession ==
    \/ BridgeRead(FrontCaller)
    \/ McpRead(FrontCaller)
    \/ WriteResponse(FrontCaller)
    \/ EnsureLookup(FrontCaller)
    \/ EnsureSpawn(FrontCaller)
    \/ Submit(FrontCaller)
    \/ Await(FrontCaller)
    \/ \E w \in Workers : WorkerOpen(w)
    \/ \E w \in Workers : WorkerRecv(w)
    \/ \E w \in Workers : WorkerExec(w)
    \/ \E w \in Workers : WorkerRespondErr(w)

SpecSession == InitSession /\ [][NextSession]_vars

----------------------------------------------------------------------------
(* validate_db_path applied on its own to every path and allow-list *)

MaxSegs == 3

PathSegs == {"data", "etc", "a.db", CurDir, ParentDir}
RelPaths == UNION {[1 .. n -> PathSegs] : n \in 0 .. MaxSegs}
PathArgs == RelPaths \cup {<<Root>> \o p : p \in RelPaths}

DirArgs ==
    { <<>>,
      <<<<Root, "data">>>>,
      <<<<Root, "etc", ParentDir, "data">>>>,
      <<<<Root, "etc">>, <<Root, "data", "etc">>>>,
      <<<<"data">>>>,
      <<<<Root>>>> }

InitPath ==
    /\ InitMachine("lib", <<>>, DefaultMaxRows)
    /\ \E path \in PathArgs, dirs \in DirArgs :
          arg = [fn |-> "validate_db_path", path |-> path, dirs |-> dirs]
    /\ ret = NoRet

CallValidate ==
    /\ arg.fn = "validate_db_path"
    /\ ret = NoRet
    /\ ret' = [fn |-> "validate_db_path"] @@ validate_db_path(arg.path, arg.dirs)
    /\ UNCHANGED <<arg, mode, allowed_dir, max_rows, alive, dropped, cancelled,
                   catalog, active_db, inner,
                   lockHolder, pc, loc, nreq,
                   resp, wstate, wpath, wby, queue, cur, execLog, tasks, replies, db>>

NextPath == CallValidate

SpecPath == InitPath /\ [][NextPath]_vars

----------------------------------------------------------------------------
(* validate_db_path applied to paths in and next to allowed roots whose    *)
(* names begin alike                                                       *)

SiblingSegs == {"data", "data2", "x.db", ParentDir}
SiblingRel == UNION {[1 .. n -> SiblingSegs] : n \in 0 .. MaxSegs}
SiblingPaths == SiblingRel \cup {<<Root>> \o p : p \in SiblingRel}

SiblingDirs ==
    { <<<<Root, "data">>>>,
      <<<<Root, "data", "data">>>>,
      <<<<Root, "data2", "data">>, <<"x.db">>>> }

InitSibling ==
    /\ InitMachine("lib", <<>>, DefaultMaxRows)
    /\ \E path \in SiblingPaths, dirs \in SiblingDirs :
          arg = [fn |-> "validate_db_path", path |-> path, dirs |-> dirs]
    /\ ret = NoRet

SpecSibling == InitSibling /\ [][NextPath]_vars

----------------------------------------------------------------------------
(* normalize_lexical applied on its own to every short path, relative or   *)
(* absolute                                                                *)

InitNorm ==
    /\ InitMachine("lib", <<>>, DefaultMaxRows)
    /\ \E path \in PathArgs : arg = [fn |-> "normalize_lexical", p |-> path]
    /\ ret = NoRet

CallNormalize ==
    /\ arg.fn = "normalize_lexical"
    /\ ret = NoRet
    /\ ret' = [fn |-> "normalize_lexical", path |-> normalize_lexical(arg.p)]
    /\ UNCHANGED <<arg, mode, allowed_dir, max_rows, alive, dropped, cancelled, catalog,
                   active_db, inner, lockHolder, pc, loc, nreq, resp, wstate, wpath, wby,
                   queue, cur, execLog, tasks, replies, db>>

NextNorm == CallNormalize

SpecNorm == InitNorm /\ [][NextNorm]_vars

----------------------------------------------------------------------------
(* run_query applied on its own: one call, or a client paging through a    *)
(* result set by calling again with the offset advanced by the limit       *)

MaxRows == 10
MaxLimit == 4

QuerySql == {"SERIES", "INC"}
OffsetArgs == {None} \cup {Some(k) : k \in 0 .. MaxRows}

\* arg.page is the number of calls asked for, ret.calls the calls made:
\* the offset of each, its reply and the rows it took from the engine
InitQuery ==
    /\ InitMachine("lib", <<>>, DefaultMaxRows)
    /\ \E n \in 0 .. MaxRows, sql \in QuerySql, limit \in 0 .. MaxLimit, offset \in OffsetArgs :
          arg = [fn |-> "run_query", n |-> n, sql |-> sql, limit |-> limit,
                 start |-> offset, offset |-> offset, page |-> 1]
    /\ ret = [fn |-> "run_query", calls |-> <<>>]

CallRunQuery ==
    /\ arg.fn = "run_query"
    /\ Len(ret.calls) < arg.page
    /\ ret' = [ret EXCEPT !.calls =
                  Append(@, [offset |-> arg.offset,
                             res |-> run_query(arg.n, arg.sql, arg.limit, arg.offset).res,
                             fetched |-> QueryFetches(arg.n, arg.sql, arg.limit,
                                                      arg.offset)])]
    /\ UNCHANGED <<arg, mode, allowed_dir, max_rows, alive, dropped, cancelled,
                   catalog, active_db, inner,
                   lockHolder, pc, loc, nreq, resp, wstate, wpath, wby, queue, cur,
                   execLog, tasks, replies, db>>

\* the client asks for the next window while rows remain past this one
NextPage ==
    /\ arg.fn = "run_query"
    /\ Len(ret.calls) = arg.page
    /\ arg.offset # None
    /\ arg.limit >= 1
    /\ arg.offset[1] + arg.limit < arg.n
    /\ arg' = [arg EXCEPT !.offset = Some(arg.offset[1] + arg.limit), !.page = @ + 1]
    /\ UNCHANGED <<ret, mode, allowed_dir, max_rows, alive, dropped, cancelled,
                   catalog, active_db, inner,
                   lockHolder, pc, loc, nreq, resp, wstate, wpath, wby, queue, cur,
                   execLog, tasks, replies, db>>

NextQuery == CallRunQuery \/ NextPage

SpecQuery == InitQuery /\ [][NextQuery]_vars

----------------------------------------------------------------------------
(* run_query under a client that follows the cursor: a first call without  *)
(* an offset, then a call at each next_offset returned, until a reply is   *)
(* not truncated                                                           *)

InitCursor ==
    /\ InitMachine("lib", <<>>, DefaultMaxRows)
    /\ \E n \in 0 .. MaxRows, sql \in QuerySql, limit \in 0 .. MaxLimit :
          arg = [fn |-> "run_query", n |-> n, sql |-> sql, limit |-> limit,
                 start |-> None, offset |-> None, page |-> 1]
    /\ ret = [fn |-> "run_query", calls |-> <<>>]

\* the client calls again with offset = the next_offset of its last reply
FollowCursor ==
    /\ arg.fn = "run_query"
    /\ Len(ret.calls) = arg.page
    /\ LET last == ret.calls[Len(ret.calls)].res
       IN /\ last.ok
          /\ last.val.truncated
          /\ arg' = [arg EXCEPT !.offset = last.val.next_offset, !.page = @ + 1]
    /\ UNCHANGED <<ret, mode, allowed_dir, max_rows, alive, dropped, cancelled, catalog,
                   active_db, inner, lockHolder, pc, loc, nreq, resp, wstate, wpath, wby,
                   queue, cur, execLog, tasks, replies, db>>

NextCursor == CallRunQuery \/ FollowCursor

SpecCursor == InitCursor /\ [][NextCursor]_vars

----------------------------------------------------------------------------
(* effective_limit applied on its own *)

MaxAsk == 7
MaxCeiling == 7

InitLimit ==
    /\ InitMachine("lib", <<>>, DefaultMaxRows)
    /\ \E requested \in {None} \cup {Some(k) : k \in 0 .. MaxAsk}, rows \in 0 .. MaxCeiling :
          arg = [fn |-> "effective_limit", requested |-> requested, max_rows |-> rows]
    /\ ret = NoRet

CallEffectiveLimit ==
    /\ arg.fn = "effective_limit"
    /\ ret = NoRet
    /\ ret' = [fn |-> "effective_limit",
               max_rows |-> effective_limit(arg.requested, arg.max_rows)]
    /\ UNCHANGED <<arg, mode, allowed_dir, max_rows, alive, dropped, cancelled,
                   catalog, active_db,
                   inner, lockHolder, pc, loc, nreq, resp, wstate, wpath, wby, queue, cur,
                   execLog, tasks, replies, db>>

NextLimit == CallEffectiveLimit

SpecLimit == InitLimit /\ [][NextLimit]_vars

----------------------------------------------------------------------------
(* is_safe_table_ref applied on its own to every short string *)

MaxRefLen == 5

\* a letter of each case, a digit, the underscore, the separator, the
\* characters of an injection and a letter outside ASCII
RefChars == {"a", "Z", "7", "_", ".", ";", " ", "'", "e_acute"}
RefArgs == UNION {[1 .. n -> RefChars] : n \in 0 .. MaxRefLen}

InitRef ==
    /\ InitMachine("lib", <<>>, DefaultMaxRows)
    /\ \E s \in RefArgs : arg = [fn |-> "is_safe_table_ref", s |-> s]
    /\ ret = NoRet

CallTableRef ==
    /\ arg.fn = "is_safe_table_ref"
    /\ ret = NoRet
    /\ ret' = [fn |-> "is_safe_table_ref", ok |-> is_safe_table_ref(arg.s)]
    /\ UNCHANGED <<arg, mode, allowed_dir, max_rows, alive, dropped, cancelled,
                   catalog, active_db, inner,
                   lockHolder, pc, loc, nreq, resp, wstate, wpath, wby, queue, cur,
                   execLog, tasks, replies, db>>

NextRef == CallTableRef

SpecRef == InitRef /\ [][NextRef]_vars

----------------------------------------------------------------------------
(* run_execute applied on its own, on a connection that has run statements *)
(* before                                                                  *)

MaxCounter == 3
MaxRowid == 3

ExecSql == {"INSERT", "INC", "DELETE", "CREATE", "SELECT", "PRAGMA", "BAD"}

\* the counters the connection has when run_execute is called: the row id
\* of its latest INSERT, and the rows changed by its latest INSERT, UPDATE
\* or DELETE
ConnArgs == [last_insert_rowid : 0 .. MaxRowid, changes : {0, 1}]

InitExecute ==
    /\ InitMachine("lib", <<>>, DefaultMaxRows)
    /\ \E d \in 0 .. MaxCounter, sql \in ExecSql, conn \in ConnArgs :
          arg = [fn |-> "run_execute", d |-> d, sql |-> sql, conn |-> conn]
    /\ ret = NoRet

CallRunExecute ==
    /\ arg.fn = "run_execute"
    /\ ret = NoRet
    /\ ret' = [fn |-> "run_execute"] @@ run_execute(arg.d, arg.sql, arg.conn)
    /\ UNCHANGED <<arg, mode, allowed_dir, max_rows, alive, dropped, cancelled, catalog,
                   active_db, inner, lockHolder, pc, loc, nreq, resp, wstate, wpath, wby,
                   queue, cur, execLog, tasks, replies, db>>

NextExecute == CallRunExecute

SpecExecute == InitExecute /\ [][NextExecute]_vars

----------------------------------------------------------------------------
(* list_columns applied on its own to every short string *)

InitColumns ==
    /\ InitMachine("lib", <<>>, DefaultMaxRows)
    /\ \E s \in RefArgs : arg = [fn |-> "list_columns", table |-> s]
    /\ ret = NoRet

CallListColumns ==
    /\ arg.fn = "list_columns"
    /\ ret = NoRet
    /\ ret' = [fn |-> "list_columns", res |-> list_columns(0, arg.table).res,
               stmts |-> ColumnsSql(arg.table)]
    /\ UNCHANGED <<arg, mode, allowed_dir, max_rows, alive, dropped, cancelled, catalog,
                   active_db, inner, lockHolder, pc, loc, nreq, resp, wstate, wpath, wby,
                   queue, cur, execLog, tasks, replies, db>>

NextColumns == CallListColumns

SpecColumns == InitColumns /\ [][NextColumns]_vars

----------------------------------------------------------------------------
(* Properties *)

TaskIds == 1 .. Len(tasks)
Spawned(w) == wstate[w] # "none"
Answered(t) == replies[t] # <<>>
Reply(t) == replies[t][1]
HasHandle(c) == loc[c].h # 0
KeyOf(path) == RegistryKey(canonicalize_lossy(path))
Count(q, t) == Len(SelectSeq(q, LAMBDA x : x = t))

\* the task ids sent to worker w, in the order they were sent
SentTo(w) == SelectSeq([i \in TaskIds |-> i], LAMBDA t : tasks[t].worker = w)

\* lexical normalisation as rewriting: take the leftmost `.` or `..`; a `.`
\* goes, a `..` goes together with the segment before it, alone when that
\* segment is the root or there is none
RECURSIVE Lexical(_)
Lexical(p) ==
    IF \A i \in 1 .. Len(p) : p[i] \notin {CurDir, ParentDir} THEN p
    ELSE LET i == CHOOSE k \in 1 .. Len(p) :
                      /\ p[k] \in {CurDir, ParentDir}
                      /\ \A j \in 1 .. (k - 1) : p[j] \notin {CurDir, ParentDir}
             before == IF p[i] = CurDir \/ i = 1 \/ p[i - 1] = Root
                       THEN SubSeq(p, 1, i - 1)
                       ELSE SubSeq(p, 1, i - 2)
         IN Lexical(before \o SubSeq(p, i + 1, Len(p)))

Absolute(p) == IF p # <<>> /\ p[1] = Root THEN p ELSE Cwd \o p

Inside(p, root) == Len(root) <= Len(p) /\ \A i \in 1 .. Len(root) : p[i] = root[i]

\* C1: at most one worker is ever spawned per registry key, the registry
\* entry of a key is the worker spawned for it for good, and every caller
\* that ensure_worker has returned to holds a handle to that worker
C1_OneWorkerPerKey ==
    /\ \A w1, w2 \in Workers :
          Spawned(w1) /\ Spawned(w2) /\ KeyOf(wpath[w1]) = KeyOf(wpath[w2]) => w1 = w2
    /\ \A w \in Workers :
          Spawned(w) =>
              KeyOf(wpath[w]) \in DOMAIN inner /\ inner[KeyOf(wpath[w])] = w
    /\ \A c \in Callers :
          HasHandle(c) =>
              /\ Spawned(loc[c].h)
              /\ KeyOf(wpath[loc[c].h]) = KeyOf(loc[c].db_path)

\* two callers holding handles to one worker, one of them its spawner, the
\* other having named the path differently
C1_Witness ==
    \E c1, c2 \in Callers :
        /\ c1 # c2
        /\ HasHandle(c1) /\ loc[c2].h = loc[c1].h
        /\ wby[loc[c1].h] = c1
        /\ loc[c1].db_path # loc[c2].db_path

\* C2: a worker executes its tasks in the order they were sent to it, and
\* a task is answered only when every task sent to its worker before it
\* has been answered
C2_Fifo ==
    /\ \A w \in Workers :
          /\ Len(execLog[w]) <= Len(SentTo(w))
          /\ execLog[w] = SubSeq(SentTo(w), 1, Len(execLog[w]))
    /\ \A t, u \in TaskIds :
          u < t /\ tasks[u].worker = tasks[t].worker /\ Answered(t) => Answered(u)

\* a worker has executed two tasks of two callers
C2_Witness ==
    \E w \in Workers :
        /\ Len(execLog[w]) >= 2
        /\ tasks[execLog[w][1]].caller # tasks[execLog[w][2]].caller

\* C3: at most one task is being executed on a worker's connection, it is
\* a task sent to that worker, and it is executed by the worker's thread
\* after it has left the opening state
C3_OneTaskPerConnection ==
    \A w \in Workers :
        /\ Cardinality(cur[w]) <= 1
        /\ \A t \in cur[w] : tasks[t].worker = w
        /\ cur[w] # {} => wstate[w] \in {"running", "draining"}

\* a task is being executed while another one waits in the same queue
C3_Witness ==
    \E w \in Workers : wstate[w] = "running" /\ cur[w] # {} /\ queue[w] # <<>>

ErrorCodes == {"SQL_ERROR", "NOT_READONLY", "INVALID_REQUEST", "DB_OPEN_FAILED"}

\* C4: a task is in its worker's queue, being executed or executed, once
\* in all and at no other worker; an executed task has exactly one reply on
\* its own channel, a success or a typed error, made from that task, and an
\* unexecuted one has none; the reply a caller receives answers its own task
C4_OneReplyPerTask ==
    /\ \A t \in TaskIds :
          LET w == tasks[t].worker
          IN /\ Count(queue[w], t) + Count(execLog[w], t)
                    + (IF t \in cur[w] THEN 1 ELSE 0) = 1
             /\ \A v \in Workers \ {w} :
                    Count(queue[v], t) = 0 /\ Count(execLog[v], t) = 0 /\ t \notin cur[v]
             /\ Len(replies[t]) = Count(execLog[w], t)
             /\ Answered(t) =>
                    /\ Reply(t).task = t
                    /\ Reply(t).ok \/ Reply(t).err \in ErrorCodes
    /\ \A c \in Callers :
          /\ pc[c] = "await" => tasks[loc[c].task].caller = c
          /\ resp[c].task # 0 => tasks[resp[c].task].caller = c

\* two callers have received their replies, a success and an error
C4_Witness ==
    \E c1, c2 \in Callers :
        /\ resp[c1].task # 0 /\ resp[c1].ok
        /\ resp[c2].task # 0 /\ ~resp[c2].ok

\* the increments executed on the database file f and answered with success
IncrementsOn(f) ==
    {t \in TaskIds :
        /\ tasks[t].kind = "Execute" /\ tasks[t].sql = "INC"
        /\ DbFile(wpath[tasks[t].worker]) = f
        /\ Answered(t) /\ Reply(t).ok}

\* C5: the counter of a database is its starting value plus the number of
\* execute calls incrementing it that have been answered with success,
\* so N such calls leave it at start + N once all replies have arrived
C5_NoLostUpdate == \A f \in DbFiles : db[f] = Cardinality(IncrementsOn(f))

\* every caller has incremented through a handle for the same path, all
\* replies have arrived and the counter is the number of callers
C5_Witness ==
    \E f \in DbFiles, w \in Workers :
        /\ \A c \in Callers : pc[c] = "idle" /\ resp[c].task # 0 /\ resp[c].ok
        /\ Len(tasks) = NumCallers
        /\ \A t \in TaskIds : t \in IncrementsOn(f) /\ tasks[t].worker = w
        /\ db[f] = NumCallers

\* C6: when a running worker finishes a ReadQuery task, the reply is a
\* success only if the engine classified the statement read-only, and for
\* a statement it classified not read-only the reply is NotReadonly and
\* the databases are as they were before the task
C6_ReadOnlyGate ==
    [][\A w \in Workers : \A t \in cur[w] :
          (wstate[w] = "running" /\ tasks[t].kind = "ReadQuery" /\ t \notin cur'[w]) =>
              LET sql == tasks[t].sql
                  classified == Prepares(effective_sql(sql, 0, None))
              IN /\ replies'[t][1].ok => classified /\ StmtReadonly(sql)
                 /\ classified /\ ~StmtReadonly(sql) =>
                        /\ replies'[t][1].err = "NOT_READONLY"
                        /\ db' = db]_vars

\* a ReadQuery carrying the increment has been refused and the counter is
\* untouched, and a ReadQuery carrying the select has been run
C6_Witness ==
    \E t, u \in TaskIds :
        /\ tasks[t].kind = "ReadQuery" /\ tasks[t].sql = "INC"
        /\ Answered(t) /\ Reply(t).err = "NOT_READONLY"
        /\ tasks[u].kind = "ReadQuery" /\ tasks[u].sql = "SELECT"
        /\ Answered(u) /\ Reply(u).ok /\ Reply(u).val.rows = <<0>>
        /\ \A f \in DbFiles : db[f] = 0

\* C7: with a non-empty allow-list validate_db_path accepts a path exactly
\* when its lexically normalised absolute form lies inside the normalised
\* form of some allowed root, and either way it returns (as the accepted
\* path or as the payload of PathNotAllowed) that normalised form
C7_SandboxByNormalForm ==
    (ret.fn = "validate_db_path" /\ arg.dirs # <<>>) =>
        LET norm == Lexical(Absolute(arg.path))
        IN /\ ret.ok <=> \E i \in 1 .. Len(arg.dirs) : Inside(norm, Lexical(arg.dirs[i]))
           /\ ret.path = norm

\* a path that starts inside the allowed root /data and leaves it through
\* `..` has been rejected
C7_Witness ==
    /\ ret.fn = "validate_db_path"
    /\ arg.dirs = <<<<Root, "data">>>>
    /\ Inside(arg.path, <<Root, "data">>)
    /\ \E i \in 1 .. Len(arg.path) : arg.path[i] = ParentDir
    /\ ~ret.ok

\* C8: every path a front end passes to ensure_worker, every path a
\* worker was spawned for and every path a task was sent for is one the
\* Path Sandboxer accepts under the configured allow-list
C8_FrontEndsValidate ==
    /\ \A c \in Callers :
          pc[c] # "idle" => validate_db_path(loc[c].db_path, allowed_dir).ok
    /\ \A w \in Workers :
          Spawned(w) => validate_db_path(wpath[w], allowed_dir).ok

\* C9 as claimed: every statement the MCP surface sends to a worker is a
\* ReadQuery task, and no database changes
C9_McpNeverMutates ==
    mode = "mcp" =>
        /\ \A t \in TaskIds : tasks[t].sql # "" => tasks[t].kind = "ReadQuery"
        /\ \A f \in DbFiles : db[f] = 0

\* the write_query statements executed on the file f with success
WritesOn(f) ==
    {t \in TaskIds :
        /\ tasks[t].tool = "write_query" /\ tasks[t].sql = "INC"
        /\ DbFile(wpath[tasks[t].worker]) = f
        /\ Answered(t) /\ Reply(t).ok}

\* C9 as amended: of the statements the MCP surface sends to a worker,
\* those of write_query are Execute tasks and all others are ReadQuery
\* tasks, none is a Query task, and a database changes only by the
\* write_query statements executed on it
C9_McpGateExceptWriteQuery ==
    mode = "mcp" =>
        /\ \A t \in TaskIds :
              tasks[t].sql # "" =>
                  tasks[t].kind = (IF tasks[t].tool = "write_query"
                                   THEN "Execute" ELSE "ReadQuery")
        /\ \A f \in DbFiles : db[f] = Cardinality(WritesOn(f))

\* the read_query tool has had an increment refused and the database is
\* unchanged
C9_Witness ==
    /\ mode = "mcp"
    /\ \E t \in TaskIds :
          /\ tasks[t].tool = "read_query" /\ tasks[t].sql = "INC"
          /\ Answered(t) /\ Reply(t).err = "NOT_READONLY"
    /\ \A f \in DbFiles : db[f] = 0

\* C10: two callers whose paths have the same lexically normalised
\* absolute form hold handles to the same worker
C10_SameCanonicalPathSameWorker ==
    \A c1, c2 \in Callers :
        (/\ HasHandle(c1) /\ HasHandle(c2)
         /\ Lexical(Absolute(loc[c1].db_path)) = Lexical(Absolute(loc[c2].db_path)))
            => loc[c1].h = loc[c2].h

----------------------------------------------------------------------------
(* Pagination *)

QueryCalls == IF ret.fn = "run_query" THEN {ret.calls[i] : i \in 1 .. Len(ret.calls)} ELSE {}

\* C11: in every QueryResult of run_query next_offset is present exactly
\* when truncated is true, and then it is the offset passed in (0 if none)
\* plus the number of rows returned
C11_NextOffsetIffTruncated ==
    \A call \in QueryCalls :
        call.res.ok =>
            LET qr == call.res.val
                off == IF call.offset = None THEN 0 ELSE call.offset[1]
            IN /\ (qr.next_offset # None) <=> qr.truncated
               /\ qr.next_offset # None => qr.next_offset[1] = off + Len(qr.rows)

\* ten rows read with limit 3 and no offset: truncated, next offset 3
C11_Witness ==
    /\ arg.fn = "run_query" /\ arg.n = 10 /\ arg.limit = 3 /\ arg.offset = None
    /\ \E call \in QueryCalls :
          /\ call.res.ok /\ call.res.val.truncated
          /\ call.res.val.next_offset = <<3>> /\ call.res.val.rows = <<1, 2, 3>>

\* C12: a call with an explicit offset that leaves rows of the result set
\* beyond offset + limit is answered truncated, with next_offset =
\* offset + limit
C12_TruncatedWhenRowsRemain ==
    \A call \in QueryCalls :
        (call.res.ok /\ call.offset # None /\ arg.n > call.offset[1] + arg.limit)
            => /\ call.res.val.truncated
               /\ call.res.val.next_offset = <<call.offset[1] + arg.limit>>

\* the concatenation of the row windows of the calls made so far
RECURSIVE Windows(_)
Windows(calls) ==
    IF calls = <<>> THEN <<>>
    ELSE Windows(SubSeq(calls, 1, Len(calls) - 1)) \o calls[Len(calls)].res.val.rows

\* C13: calls at offsets 0, limit, 2*limit, .. return the result set window
\* by window: together the windows are the first rows of the result set in
\* its order, none twice, and all of it once the last window is fetched
C13_WindowsRebuildResultSet ==
    (ret.fn = "run_query" /\ arg.sql = "SERIES" /\ arg.start = <<0>> /\ arg.limit >= 1)
        => LET full == [i \in 1 .. arg.n |-> i]
               got == Windows(ret.calls)
               upto == IF Len(ret.calls) * arg.limit < arg.n
                       THEN Len(ret.calls) * arg.limit ELSE arg.n
           IN /\ \A i \in 1 .. Len(ret.calls) :
                    /\ ret.calls[i].res.ok
                    /\ ret.calls[i].offset = <<(i - 1) * arg.limit>>
              /\ got = SubSeq(full, 1, upto)

\* ten rows fetched three at a time in four calls
C13_Witness ==
    /\ ret.fn = "run_query" /\ arg.sql = "SERIES" /\ arg.start = <<0>>
    /\ arg.n = 10 /\ arg.limit = 3 /\ Len(ret.calls) = 4
    /\ Windows(ret.calls) = <<1, 2, 3, 4, 5, 6, 7, 8, 9, 10>>
    /\ Len(ret.calls[4].res.val.rows) = 1

----------------------------------------------------------------------------
(* Row limits *)

\* C14: every task with a row limit that a front end submits carries
\* max(1, min(requested, max_rows)), a request without a limit counting as
\* max_rows, on every call path
C14_TasksCarryEffectiveLimit ==
    mode \in {"mcp", "bridge"} =>
        \A t \in TaskIds :
            tasks[t].limit # None =>
                LET asked == IF tasks[t].requested = None THEN max_rows
                             ELSE tasks[t].requested[1]
                    capped == IF asked < max_rows THEN asked ELSE max_rows
                IN tasks[t].limit[1] = (IF capped > 1 THEN capped ELSE 1)

----------------------------------------------------------------------------
(* Threads that end *)

\* C15: a worker whose open failed answers every task it is sent with the
\* open error, on the task's own channel and once; it executes nothing; and
\* it leaves its drain loop only by returning, when the channel is closed
\* and empty and every task it was sent has its answer
C15_FailedOpenDrains ==
    /\ [](\A w \in Workers : wstate[w] \in {"draining", "failed"} =>
            /\ \A t \in TaskIds : tasks[t].worker = w =>
                  /\ t \notin dropped
                  /\ Answered(t) => /\ Len(replies[t]) = 1
                                    /\ ~Reply(t).ok
                                    /\ Reply(t).err = "DB_OPEN_FAILED"
                                    /\ Reply(t).task = t
                  /\ wstate[w] = "failed" => Answered(t)
            /\ wstate[w] = "failed" =>
                  ~alive /\ queue[w] = <<>> /\ cur[w] = {})
    /\ [][\A w \in Workers : wstate[w] = "draining" =>
            /\ wstate'[w] \in {"draining", "failed"}
            /\ (cur'[w] # cur[w] \/ wstate'[w] # wstate[w]) => db' = db]_vars

\* a worker that failed to open has answered a task and returned
C15_Witness ==
    \E w \in Workers, t \in TaskIds :
        /\ wstate[w] = "failed" /\ tasks[t].worker = w
        /\ Answered(t) /\ Reply(t).err = "DB_OPEN_FAILED"
        /\ pc[tasks[t].caller] = "idle" /\ resp[tasks[t].caller].err = "DB_OPEN_FAILED"

\* C16: no caller awaits forever; a caller whose reply channel was dropped
\* without a reply completes with Internal; a send to a worker whose
\* receiver is gone fails at once with Internal, and no task is queued
C16_NoCallerWaitsForever ==
    /\ \A c \in Callers : (pc[c] = "await") ~> (pc[c] # "await")
    /\ [][\A c \in Callers :
            (pc[c] = "await" /\ loc[c].task \in dropped /\ pc'[c] # "await")
                => pc'[c] = "idle" /\ ~resp'[c].ok /\ resp'[c].err = "INTERNAL"]_vars
    /\ [][\A c \in Callers :
            (/\ pc[c] = "send" /\ loc[c].script # <<>>
             /\ wstate[loc[c].h] \in {"exited", "failed", "panicked"}
             /\ pc'[c] # "send")
                => /\ pc'[c] = "idle" /\ ~resp'[c].ok /\ resp'[c].err = "INTERNAL"
                   /\ tasks' = tasks /\ queue' = queue]_vars

\* one caller's task was dropped by a panic and the caller got Internal;
\* another caller then sent to the dead worker and got Internal, no task
C16_Witness ==
    \E c1, c2 \in Callers :
        /\ c1 # c2 /\ pc[c1] = "idle" /\ pc[c2] = "idle"
        /\ resp[c1].err = "INTERNAL" /\ resp[c2].err = "INTERNAL"
        /\ \E t \in dropped : tasks[t].caller = c1
        /\ \A t \in TaskIds : tasks[t].caller # c2

----------------------------------------------------------------------------
(* Identifiers *)

\* [A-Za-z_][A-Za-z0-9_]*
Ident(s) ==
    /\ Len(s) >= 1
    /\ s[1] \in AsciiAlpha \cup {"_"}
    /\ \A i \in 1 .. Len(s) : s[i] \in AsciiAlpha \cup AsciiDigit \cup {"_"}

Dots(s) == {i \in 1 .. Len(s) : s[i] = "."}

\* C17: is_safe_table_ref accepts exactly ident and ident.ident; a string
\* with a space, a quote, a semicolon, an empty segment or a second dot is
\* rejected
C17_TableRefGrammar ==
    ret.fn = "is_safe_table_ref" =>
        LET s == arg.s
        IN /\ ret.ok <=>
                \/ Ident(s)
                \/ \E k \in 1 .. Len(s) :
                      /\ s[k] = "."
                      /\ Ident(SubSeq(s, 1, k - 1))
                      /\ Ident(SubSeq(s, k + 1, Len(s)))
           /\ (\E i \in 1 .. Len(s) : s[i] \in {" ", "'", ";"}) => ~ret.ok
           /\ Cardinality(Dots(s)) >= 2 => ~ret.ok
           /\ (s = <<>> \/ 1 \in Dots(s) \/ Len(s) \in Dots(s)) => ~ret.ok

\* a schema-qualified name has been accepted
C17_Witness ==
    /\ ret.fn = "is_safe_table_ref" /\ ret.ok
    /\ arg.s = <<"a", "7", ".", "_">>

----------------------------------------------------------------------------
(* The schema *)

\* names the engine reserves for itself begin with sqlite_
Reserved(name) ==
    Len(name) >= 7 /\ SubSeq(name, 1, 7) = <<"s", "q", "l", "i", "t", "e", "_">>

\* the user tables of a catalog in ascending name order
UserTablesOf(cat) == SelectSeq(ByName, LAMBDA n : n \in cat /\ ~Reserved(n))

\* C18: two Tables tasks run by one worker with no DDL run between them
\* are answered with the same list, and the list a Tables task is answered
\* with is the user tables of the database, no engine-internal table, in
\* ascending name order
C18_TablesListsUserTables ==
    /\ [](\A w \in Workers : \A i \in 1 .. Len(execLog[w]) - 1 :
            LET t == execLog[w][i]
                u == execLog[w][i + 1]
            IN (tasks[t].kind = "Tables" /\ tasks[u].kind = "Tables")
                   => Reply(t).val = Reply(u).val)
    /\ [][\A w \in Workers : \A t \in cur[w] :
            (wstate[w] = "running" /\ tasks[t].kind = "Tables" /\ t \notin cur'[w])
                => /\ replies'[t][1].ok
                   /\ replies'[t][1].val = UserTablesOf(catalog[FileOf[wpath[w]]])]_vars

----------------------------------------------------------------------------
(* A task that fails *)

TaskErrors == {"SQL_ERROR", "NOT_READONLY", "INVALID_REQUEST"}

----------------------------------------------------------------------------
(* Cancellation *)

\* the increments worker threads have run on the file f
IncrementsRunOn(f) ==
    {t \in TaskIds :
        /\ tasks[t].kind = "Execute" /\ tasks[t].sql = "INC"
        /\ FileOf[wpath[tasks[t].worker]] = f
        /\ Count(execLog[tasks[t].worker], t) = 1}

\* C21: a caller that stops awaiting leaves its task where it is, in the
\* queue or in execution, and changes no database; the worker executes the
\* tasks it was sent in the order they were sent, cancelled ones included,
\* and their statements take effect; no caller receives the result of a
\* cancelled task; and the step that executes a cancelled task leaves the
\* worker running with its queue as it was
C21_CancelLeavesTaskQueued ==
    /\ [](/\ \A w \in Workers :
              /\ Len(execLog[w]) <= Len(SentTo(w))
              /\ execLog[w] = SubSeq(SentTo(w), 1, Len(execLog[w]))
          /\ \A t \in cancelled :
              LET w == tasks[t].worker
              IN /\ Count(queue[w], t) + Count(execLog[w], t)
                        + (IF t \in cur[w] THEN 1 ELSE 0) = 1
                 /\ \A c \in Callers : resp[c].task # t
          /\ \A f \in DbFiles : db[f] = Cardinality(IncrementsRunOn(f)))
    /\ [][/\ cancelled' # cancelled =>
                queue' = queue /\ cur' = cur /\ tasks' = tasks /\ db' = db
          /\ \A w \in Workers : \A t \in cur[w] \cap cancelled :
                t \notin cur'[w] =>
                    /\ wstate'[w] = "running"
                    /\ queue'[w] = queue[w]
                    /\ execLog'[w] = Append(execLog[w], t)
                    /\ replies' = replies]_vars

\* an increment was cancelled while it waited in the queue; the worker ran
\* it all the same, its result went nowhere, and the worker went on to
\* answer the task sent after it
C21_Witness ==
    \E w \in Workers : \E i, j \in 1 .. Len(execLog[w]) :
        LET t == execLog[w][i]
            u == execLog[w][j]
        IN /\ i < j
           /\ t \in cancelled /\ tasks[t].sql = "INC" /\ ~Answered(t)
           /\ db[FileOf[wpath[w]]] = 1
           /\ pc[tasks[t].caller] = "idle" /\ resp[tasks[t].caller].task = 0
           /\ u \notin cancelled /\ Answered(u) /\ resp[tasks[u].caller].task = u

----------------------------------------------------------------------------
(* Rows read *)

\* C22: run_query never returns more than `limit` rows and never takes
\* more than limit + 1 rows from the engine, with or without an offset;
\* without an offset truncated is true exactly when the statement yields
\* more than `limit` rows
C22_BoundedFetch ==
    \A call \in QueryCalls :
        /\ call.fetched <= arg.limit + 1
        /\ call.res.ok =>
              /\ Len(call.res.val.rows) <= arg.limit
              /\ call.offset = None =>
                    (call.res.val.truncated <=> Len(ResultSet(arg.sql, arg.n)) > arg.limit)

\* ten rows read with limit 3: three returned, four taken from the engine
C22_Witness ==
    /\ arg.fn = "run_query" /\ arg.n = 10 /\ arg.limit = 3 /\ arg.sql = "SERIES"
    /\ \E call \in QueryCalls :
          /\ call.offset = None /\ call.res.ok /\ call.res.val.truncated
          /\ Len(call.res.val.rows) = 3 /\ call.fetched = 4

----------------------------------------------------------------------------
(* The life of a worker *)

\* Opening -> Running -> Closed, Opening -> draining -> Closed; a thread
\* that returned or panicked is closed
Forward ==
    { <<"none", "opening">>, <<"opening", "running">>, <<"opening", "draining">>,
      <<"running", "exited">>, <<"running", "panicked">>, <<"draining", "failed">> }

\* C23: a worker's state changes only along Opening -> Running -> Closed or
\* Opening -> draining -> Closed; while it is opening no task is in
\* execution or executed and every task sent to it waits in its queue in
\* the order sent; a database changes only in a step of a task in execution
\* on a running worker of that file; and tasks are executed in the order
\* they were sent
C23_WorkerLifecycle ==
    /\ [][\A w \in Workers :
            wstate'[w] # wstate[w] => <<wstate[w], wstate'[w]>> \in Forward]_vars
    /\ [](\A w \in Workers :
            /\ wstate[w] \in {"none", "opening"} =>
                  cur[w] = {} /\ execLog[w] = <<>> /\ queue[w] = SentTo(w)
            /\ Len(execLog[w]) <= Len(SentTo(w))
            /\ execLog[w] = SubSeq(SentTo(w), 1, Len(execLog[w])))
    /\ [][\A f \in DbFiles :
            db'[f] # db[f] =>
                \E w \in Workers :
                    wstate[w] = "running" /\ cur[w] # {} /\ FileOf[wpath[w]] = f]_vars

\* a worker has opened, run the two tasks it was sent in their order and
\* returned from its loop
C23_Witness ==
    \E w \in Workers :
        /\ wstate[w] = "exited"
        /\ Len(SentTo(w)) = 2 /\ execLog[w] = SentTo(w)
        /\ tasks[execLog[w][1]].caller # tasks[execLog[w][2]].caller
        /\ \A t \in TaskIds : Answered(t)

----------------------------------------------------------------------------
(* The registry lock *)

\* C24: the registry lock is held only by a caller between its lookup miss
\* and its insert, a step that opens a database neither needs nor touches
\* the lock, and every ensure_worker call returns a handle whether or not
\* the opens under way ever return
C24_LockNotHeldForOpen ==
    /\ [](lockHolder # 0 => pc[lockHolder] = "spawn")
    /\ [][(\E w \in Workers : wstate[w] = "opening" /\ wstate'[w] # "opening")
              => lockHolder' = lockHolder]_vars
    /\ \A c \in Callers :
          (pc[c] = "ensure") ~> (pc[c] = "send" /\ HasHandle(c))

\* while the worker one caller spawned is still opening, another caller
\* has been given the handle of a worker it spawned for another database
C24_Witness ==
    \E c1, c2 \in Callers : \E w1, w2 \in Workers :
        /\ c1 # c2 /\ w1 # w2
        /\ wstate[w1] = "opening" /\ wby[w1] = c1
        /\ wby[w2] = c2 /\ pc[c2] = "send" /\ loc[c2].h = w2
        /\ FileOf[wpath[w1]] # FileOf[wpath[w2]]

----------------------------------------------------------------------------
(* Workers of distinct databases *)

\* what belongs to the thread of worker w
Thread(w) == <<wstate[w], cur[w], execLog[w]>>

\* C25: a worker that is opening can finish its open, one with a task in
\* its channel and none in hand can take it, and one with a task in hand
\* can complete it, whatever the other workers are doing; and a step of one
\* worker's thread leaves the other workers' threads and queues and the
\* other databases as they were
C25_WorkersIndependent ==
    /\ [](\A w \in Workers :
            /\ wstate[w] = "opening" => ENABLED WorkerOpen(w)
            /\ (wstate[w] \in {"running", "draining"} /\ cur[w] = {} /\ queue[w] # <<>>)
                  => ENABLED WorkerRecv(w)
            /\ (wstate[w] = "running" /\ cur[w] # {}) => ENABLED WorkerExec(w)
            /\ (wstate[w] = "draining" /\ cur[w] # {}) => ENABLED WorkerRespondErr(w))
    /\ [][\A w \in Workers :
            (wstate[w] # "none" /\ Thread(w)' # Thread(w)) =>
                /\ \A v \in Workers \ {w} : Thread(v)' = Thread(v) /\ queue'[v] = queue[v]
                /\ \A f \in DbFiles \ {FileOf[wpath[w]]} : db'[f] = db[f]]_vars

\* while the worker of one database is still opening with a task in its
\* queue, a task sent later to the worker of another database has been run
\* and its caller has the result
C25_Witness ==
    \E w1, w2 \in Workers : \E t1, t2 \in TaskIds :
        /\ wstate[w1] = "opening" /\ queue[w1] = <<t1>>
        /\ t1 < t2 /\ tasks[t2].worker = w2
        /\ FileOf[wpath[w1]] # FileOf[wpath[w2]]
        /\ Answered(t2) /\ Reply(t2).ok
        /\ resp[tasks[t2].caller].task = t2

----------------------------------------------------------------------------
(* Lexical normalisation *)

\* the segments retained so far, after one more segment of the path: a `.`
\* is dropped, a `..` pops the last retained segment if there is one to
\* pop and is kept in place otherwise, anything else is retained; a `..`
\* right after the root is kept or not as atRoot says
Retain(out, seg, atRoot) ==
    IF seg = CurDir THEN out
    ELSE IF seg = ParentDir
         THEN IF out = <<>> \/ out[Len(out)] = ParentDir THEN Append(out, ParentDir)
              ELSE IF out[Len(out)] = Root
                   THEN (IF atRoot THEN Append(out, ParentDir) ELSE out)
              ELSE SubSeq(out, 1, Len(out) - 1)
    ELSE Append(out, seg)

RECURSIVE Retained(_, _)
Retained(p, atRoot) ==
    IF p = <<>> THEN <<>>
    ELSE Retain(Retained(SubSeq(p, 1, Len(p) - 1), atRoot), p[Len(p)], atRoot)

\* C26: normalize_lexical drops every `.` segment and, for each `..`, pops
\* the last retained segment if one exists and otherwise keeps the `..` in
\* place in its output; the root of an absolute path is never popped (a
\* `..` met at the root may be kept after it or have no effect)
C26_ParentKeptWhenNothingToPop ==
    ret.fn = "normalize_lexical" =>
        /\ \A i \in 1 .. Len(ret.path) : ret.path[i] # CurDir
        /\ is_absolute(arg.p) => is_absolute(ret.path)
        /\ ret.path \in {Retained(arg.p, TRUE), Retained(arg.p, FALSE)}

----------------------------------------------------------------------------
(* Column introspection *)

\* a bare identifier or schema.table
TableRef(s) ==
    \/ Ident(s)
    \/ \E k \in 1 .. Len(s) :
          s[k] = "." /\ Ident(SubSeq(s, 1, k - 1)) /\ Ident(SubSeq(s, k + 1, Len(s)))

\* C27: list_columns answers InvalidRequest, with no statement prepared,
\* exactly for the strings that are neither a bare identifier nor
\* schema.table, and for every string that is one of the two it prepares
\* the column introspection of that table
C27_ColumnsTakesTableRefs ==
    ret.fn = "list_columns" =>
        /\ ~TableRef(arg.table) <=> (~ret.res.ok /\ ret.res.err = "INVALID_REQUEST")
        /\ ~TableRef(arg.table) => ret.stmts = <<>>
        /\ TableRef(arg.table) =>
              ret.stmts = <<[pragma |-> "table_info", table |-> arg.table]>>

----------------------------------------------------------------------------
(* Execute *)

\* C28: run_execute steps the statement once, writes included, and its
\* ExecResult carries the rows the statement changed; last_insert_rowid is
\* present only when the statement inserted a row and absent after an
\* UPDATE, a DELETE or DDL
C28_RowidOnlyAfterInsert ==
    ret.fn = "run_execute" =>
        /\ arg.sql \in DmlStmts \cup {"CREATE"} => ret.res.ok
        /\ ret.res.ok =>
              /\ ret.db = Stepped(arg.sql, arg.d)
              /\ ret.res.val.changes = RowsChanged(arg.sql)
              /\ ret.res.val.last_insert_rowid # None <=> arg.sql = "INSERT"

----------------------------------------------------------------------------
(* Cursor following *)

\* the client has its last reply and it is not truncated
CursorDone ==
    /\ ret.fn = "run_query" /\ arg.start = None
    /\ Len(ret.calls) = arg.page
    /\ LET last == ret.calls[Len(ret.calls)].res
       IN last.ok /\ ~last.val.truncated

\* C29: with limit >= 1, a client that follows the cursor until a reply is
\* not truncated has then received every row of the result set, once and
\* in order; and every next_offset returned on the way is greater than the
\* offset of its call
C29_CursorReachesEveryRow ==
    (ret.fn = "run_query" /\ arg.start = None /\ arg.limit >= 1) =>
        /\ \A i \in 1 .. Len(ret.calls) :
              LET call == ret.calls[i]
              IN (call.res.ok /\ call.res.val.next_offset # None) =>
                     call.res.val.next_offset[1] > unwrap_or(call.offset, 0)
        /\ CursorDone => Windows(ret.calls) = ResultSet(arg.sql, arg.n)

----------------------------------------------------------------------------
(* After a failed open *)

OpenFailed(w) == wstate[w] \in {"draining", "failed"}

\* C30: once a worker's open has failed its handle stays the registry's
\* entry for its path, no other worker is spawned for that path and every
\* caller asking for the path is given that handle; the worker never opens
\* again; a send to it is accepted; and every task it is sent is answered,
\* with DbOpenFailed and nothing else
C30_FailedWorkerStaysRegistered ==
    /\ [](\A w \in Workers : OpenFailed(w) =>
            /\ KeyOf(wpath[w]) \in DOMAIN inner /\ inner[KeyOf(wpath[w])] = w
            /\ \A v \in Workers \ {w} :
                  Spawned(v) => KeyOf(wpath[v]) # KeyOf(wpath[w])
            /\ \A c \in Callers :
                  (HasHandle(c) /\ KeyOf(loc[c].db_path) = KeyOf(wpath[w])) => loc[c].h = w
            /\ \A t \in TaskIds :
                  (tasks[t].worker = w /\ Answered(t)) =>
                      ~Reply(t).ok /\ Reply(t).err = "DB_OPEN_FAILED")
    /\ [][\A w \in Workers : OpenFailed(w) => OpenFailed(w)']_vars
    /\ [][\A c \in Callers :
            (/\ pc[c] = "send" /\ loc[c].script # <<>> /\ OpenFailed(loc[c].h)
             /\ pc'[c] # "send")
                => /\ pc'[c] = "await"
                   /\ tasks'[loc'[c].task].worker = loc[c].h]_vars
    /\ \A t \in 1 .. MaxTasks :
          (t \in TaskIds /\ OpenFailed(tasks[t].worker))
              ~> (t \in TaskIds /\ Answered(t) /\ Reply(t).err = "DB_OPEN_FAILED")

\* the open of the only worker has failed; the caller that spawned it and a
\* caller that found it in the registry have both been answered with
\* DbOpenFailed
C30_Witness ==
    \E w \in Workers : \E c1, c2 \in Callers :
        /\ wstate[w] = "draining" /\ wby[w] = c1 /\ c2 # c1
        /\ \A v \in Workers \ {w} : ~Spawned(v)
        /\ \A c \in {c1, c2} :
              /\ pc[c] = "idle" /\ resp[c].task # 0
              /\ tasks[resp[c].task].worker = w
              /\ resp[c].err = "DB_OPEN_FAILED"

\* the segment `name` begins with the whole of the segment `stem` and goes on
BeginsWith(name, stem) ==
    LET a == Spelling(name)
        b == Spelling(stem)
    IN Len(b) < Len(a) /\ SubSeq(a, 1, Len(b)) = b

\* p lies in or is a sibling of root: same parent, and the name of p at
\* root's depth begins with root's own name
Sibling(p, root) ==
    LET n == Len(root)
    IN /\ n >= 2 /\ Len(p) >= n
       /\ SubSeq(p, 1, n - 1) = SubSeq(root, 1, n - 1)
       /\ BeginsWith(p[n], root[n])

\* C31: the allow-list check compares whole path segments: a resolved path
\* in a sibling directory whose name merely begins with the name of an
\* allowed root, and that lies inside no allowed root, is rejected with
\* PathNotAllowed carrying the resolved path
C31_SiblingRejected ==
    (ret.fn = "validate_db_path" /\ arg.dirs # <<>>) =>
        LET norm == Lexical(Absolute(arg.path))
            roots == {Lexical(arg.dirs[i]) : i \in 1 .. Len(arg.dirs)}
        IN ((\E r \in roots : Sibling(norm, r)) /\ (\A r \in roots : ~Inside(norm, r)))
               => (~ret.ok /\ ret.path = norm)

\* /data2/x.db has been rejected under the allowed root /data
C31_Witness ==
    /\ ret.fn = "validate_db_path"
    /\ arg.dirs = <<<<Root, "data">>>>
    /\ Lexical(Absolute(arg.path)) = <<Root, "data2", "x.db">>
    /\ ~ret.ok
    /\ ret.path = <<Root, "data2", "x.db">>

\* the lines of input a response is owed to: everything the bridge reads
\* but an empty line, everything the MCP dispatcher reads but an empty line
\* and a message without an id
Owed(line) ==
    \/ line.kind \in {"garbage", "request"}
    \/ line.kind = "message" /\ line.id # None

\* their positions in the input, in order
OwedAt(read) == SelectSeq([i \in 1 .. Len(read) |-> i], LAMBDA i : Owed(read[i]))

\* a well-formed connect request
IsConnect(line) ==
    line.kind = "request" /\ line.v = 1 /\ line.cmd = Some("connect") /\ line.path # None

\* a well-formed request for a database
IsDbRequest(line) ==
    /\ line.kind = "request" /\ line.v = 1
    /\ line.cmd \in {Some("query"), Some("execute"), Some("tables"), Some("columns")}

\* the path of the last connect among the first n lines, None without one
RECURSIVE LastConnected(_, _)
LastConnected(read, n) ==
    IF n = 0 THEN None
    ELSE IF IsConnect(read[n]) THEN read[n].path
    ELSE LastConnected(read, n - 1)

\* the database the request on line i is for, None without one
Target(read, i) ==
    IF read[i].path # None THEN read[i].path ELSE LastConnected(read, i - 1)

\* the worker registered for a path did not get its database open
OpenFailedFor(path) ==
    LET key == RegistryKey(canonicalize_lossy(path))
    IN key \in DOMAIN inner /\ wstate[inner[key]] = "draining"

\* C32: the bridge answers every connect with ok whatever becomes of the
\* open, which the worker thread attempts on its own after it is
\* registered; a failed open shows only in the later query, execute, tables
\* and columns requests for that database, each answered DB_OPEN_FAILED
C32_ConnectDoesNotWaitForOpen ==
    (mode = "bridge" /\ arg.fn = "run") =>
        \A k \in 1 .. Len(ret.out) :
            LET i == OwedAt(arg.read)[k]
                line == arg.read[i]
                path == Target(arg.read, i)
            IN /\ IsConnect(line) => ret.out[k].ok
               /\ (IsDbRequest(line) /\ path # None /\ OpenFailedFor(path[1]))
                     => (~ret.out[k].ok /\ ret.out[k].err = "DB_OPEN_FAILED")

\* connect to a database that cannot be opened was answered ok, and the
\* path-less request after it DB_OPEN_FAILED
C32_Witness ==
    /\ mode = "bridge" /\ arg.fn = "run"
    /\ Len(arg.read) >= 2 /\ Len(ret.out) >= 2
    /\ IsConnect(arg.read[1]) /\ arg.read[1].path = Some(DbB)
    /\ IsDbRequest(arg.read[2]) /\ arg.read[2].path = None
    /\ OpenFailedFor(DbB)
    /\ ret.out[1].ok
    /\ ret.out[2].err = "DB_OPEN_FAILED"

\* a request the bridge refuses whatever its payload: a protocol version
\* other than 1, or a cmd it does not know
IsRefused(line) ==
    /\ line.kind = "request"
    /\ \/ line.v # 1
       \/ line.cmd \notin {Some("connect"), Some("query"), Some("execute"),
                           Some("tables"), Some("columns")}

\* the handler has answered INVALID_REQUEST and touched neither the active
\* database, nor the registry, nor any worker
RefusedUntouched ==
    /\ pc'[FrontCaller] = "idle"
    /\ resp'[FrontCaller] = Err("INVALID_REQUEST")
    /\ UNCHANGED <<active_db, inner, lockHolder, wstate, wpath, queue, tasks, replies,
                   db, catalog>>

\* the handler goes to the registry for this path
GoesFor(path) ==
    /\ pc'[FrontCaller] = "ensure"
    /\ loc'[FrontCaller].db_path = path
    /\ loc'[FrontCaller].fe = "bridge"

\* C33: in a bridge session, a query, execute, tables or columns request
\* without a path read before any connect is answered INVALID_REQUEST and
\* creates no worker; after a connect it goes for the path of the latest
\* connect; a request with a path of its own goes for that path and leaves
\* the active database as it was; a request with v # 1 or an unknown cmd is
\* answered INVALID_REQUEST and changes nothing; the active database is at
\* all times the path of the latest connect, and every task is sent to the
\* worker of the path its request went for
C33_BridgeSessionState ==
    [][(mode = "bridge" /\ arg.fn = "run") =>
          LET n == Len(arg.read)
              last == LastConnected(arg.read, n)
          IN /\ active_db' = LastConnected(arg'.read, Len(arg'.read))
             /\ Len(tasks') > Len(tasks) =>
                   LET t == tasks'[Len(tasks')]
                   IN RegistryKey(wpath[t.worker])
                         = RegistryKey(canonicalize_lossy(Target(arg.read, n)[1]))
             /\ Len(arg'.read) = n + 1 =>
                   LET line == arg'.read[n + 1]
                   IN /\ (IsDbRequest(line) /\ line.path = None /\ last = None)
                            => RefusedUntouched
                      /\ (IsDbRequest(line) /\ line.path = None /\ last # None)
                            => (GoesFor(last[1]) /\ UNCHANGED active_db)
                      /\ (IsDbRequest(line) /\ line.path # None)
                            => (GoesFor(line.path[1]) /\ UNCHANGED active_db)
                      /\ IsRefused(line) => RefusedUntouched]_vars

\* after connect to a.db and then to b.db, a path-less request was sent to
\* the worker of b.db and answered
C33_Witness ==
    /\ mode = "bridge" /\ arg.fn = "run"
    /\ Len(arg.read) = 3 /\ Len(ret.out) = 3
    /\ IsConnect(arg.read[1]) /\ arg.read[1].path = Some(DbA)
    /\ IsConnect(arg.read[2]) /\ arg.read[2].path = Some(DbB)
    /\ IsDbRequest(arg.read[3]) /\ arg.read[3].path = None
    /\ active_db = Some(DbB)
    /\ Len(tasks) = 1
    /\ wpath[tasks[1].worker] = DbB

\* the ids of the lines at the given positions
IdsAt(read, at) == [k \in 1 .. Len(at) |-> read[at[k]].id]

\* C34: in a session of either front end the responses written are, in
\* order, one for each line read that is owed one (for the bridge every
\* line that is not empty, for the MCP dispatcher every line that is not
\* empty and not a message without an id), except the request the handler
\* is still working on, which is the last line read: nothing is read while
\* a response is outstanding; the response to a request carries its id
C34_OneResponsePerRequestInOrder ==
    arg.fn = "run" =>
        LET owed == OwedAt(arg.read)
            pending == IF arg.req # None \/ pc[FrontCaller] # "idle" THEN 1 ELSE 0
        IN /\ Len(ret.out) = Len(owed) - pending
           /\ pending = 1 =>
                 /\ arg.req = Some(arg.read[Len(arg.read)])
                 /\ Owed(arg.read[Len(arg.read)])
           /\ \A k \in 1 .. Len(ret.out) :
                 arg.read[owed[k]].kind \in {"request", "message"}
                    => ret.out[k].id = arg.read[owed[k]].id
           /\ \A i \in 1 .. Len(arg.read) :
                 (arg.read[i].kind = "message" /\ arg.read[i].id = None)
                    => \A k \in 1 .. Len(owed) : owed[k] # i

\* the bridge has read a request with id q, an empty line and a request
\* with id p that went to a worker, and has written the responses q, p
C34_Witness ==
    /\ mode = "bridge" /\ arg.fn = "run"
    /\ Len(arg.read) = 3
    /\ arg.read[1].kind = "request" /\ arg.read[1].id = Some("q")
    /\ arg.read[2].kind = "blank"
    /\ arg.read[3].kind = "request" /\ arg.read[3].id = Some("p")
    /\ Len(tasks) >= 1
    /\ Len(ret.out) = 2
    /\ IdsAt(ret.out, <<1, 2>>) = <<Some("q"), Some("p")>>

====
